---- MODULE Spec2Model ----
(***************************************************************************)
(* tari-cli: the template deployment pipeline of crates/tari_deploy.       *)
(*                                                                         *)
(* Part I models TemplateDeployer (src/crates/tari_deploy/src/deployer.rs) *)
(* as the source has it: deploy() builds the registration request, runs    *)
(* check_balance_to_deploy() and calls register_template(), every wallet   *)
(* call going through a fresh gRPC wallet_client().                        *)
(*                                                                         *)
(* Part II models the handling of a wait-for-result response and the       *)
(* extraction of the template address.  error.rs declares the errors of    *)
(* that stage (WaitForTransactionTimeout, InvalidTransaction,              *)
(* MissingTransactionResult, MissingPublishedTemplate) but no source file  *)
(* constructs them, so that stage is modelled from spec.md 4.5 and 4.6.    *)
(*                                                                         *)
(* Part III models wallet_daemon_client (deployer.rs:241-264), the session *)
(* handshake with the wallet daemon.                                       *)
(*                                                                         *)
(* Part IV runs two deploy() calls of one TemplateDeployer as concurrent   *)
(* tasks, interleaved at their await points.                               *)
(*                                                                         *)
(* Part V models the Loader's content hash: the file read and hashed by    *)
(* validate_and_load_wasm_template (deployer.rs:208-217) and, from         *)
(* spec.md 4.1, the same Loader given the bytes directly.                  *)
(*                                                                         *)
(* Part VI chains the stages end to end as spec.md 2 and 7 describe them.  *)
(*                                                                         *)
(* Part VII models the CLI process around the deploy command.              *)
(*                                                                         *)
(* Part VIII models Collector::collect over a tree of template folders.    *)
(*                                                                         *)
(* Part IX models GitRepository and the refresh of a template repository.  *)
(*                                                                         *)
(* Part X models Config::override_data.                                    *)
(*                                                                         *)
(* Part XI models add_members_to_workspace of the add command.             *)
(***************************************************************************)
EXTENDS Naturals, Sequences, FiniteSets

VARIABLES
    pc,               \* position of the deploy() invocation
    params,           \* DeployParams variant passed to deploy()
    register_request, \* request built by deploy() (deployer.rs:70-72)
    request,          \* request built by check_balance_to_deploy() (114-116)
    wallet_balance,   \* local of check_balance_to_deploy() (117)
    fee_response,     \* GetTemplateRegistrationFeeResponse as received
    fee,              \* local of check_balance_to_deploy() (118)
    balance_check,    \* outcome of check_balance_to_deploy(): none/passed/failed
    result,           \* value returned by deploy()
    rpcLog,           \* wallet RPCs issued so far, in order
    validations,      \* calls of validate_and_load_wasm_template that read the file
    uploads,          \* calls of uploader.upload
    clients,          \* wallet clients created by wallet_client()
    txOutcome,        \* what the network makes of the submitted transaction
    inflight,         \* RPCs sent and not yet answered, each with the client it uses
    rpcClients,       \* the client each RPC of rpcLog was sent on, in order
    malformed,        \* a file read so far held a malformed module
    calls,            \* registration_fee() invocations so far
    pubPc,            \* position of the Publisher (Part II)
    txId,             \* transaction id returned by the publish call
    waitResp,         \* wait_transaction_result response
    pubResult,        \* value returned by the Publisher
    extracted,        \* extract_template_address has been entered
    sessPc,           \* position of wallet_daemon_client() (Part III)
    sessClient,       \* the WalletDaemonClient being set up
    sessChallenge,    \* auth_token of the AuthLoginResponse
    sessLog,          \* requests sent on sessClient, in order
    sessResult,       \* value returned by wallet_daemon_client()
    sessCalls,        \* RPCs made on the returned client
    cPc,              \* position of each concurrent deploy() task (Part IV)
    frames,           \* the locals of each task's deploy() call
    seen,             \* what the uploader and the wallet answered each task
    cResult,          \* value returned to each task
    cRpcs,            \* wallet RPCs sent: task, owner of the client, request
    fs,               \* bytes of the template file on disk (Part V)
    loads,            \* loads made so far: source variant, bytes, hash
    nLoads,           \* number of loads made so far
    lastHasher,       \* state in which the hasher used last was left
    plPc,             \* position of the pipeline (Part VI)
    plValid,          \* the binary given to the Loader is a valid module
    plFee,            \* the fee estimate, as the Fee Estimator returned it
    plCovered,        \* the balance received covers the fee estimate
    plTx,             \* transaction id returned by the publish call
    plResp,           \* wait-for-result response
    plResult,         \* value returned by the pipeline
    cliPc,            \* position of the CLI process (Part VII)
    cliCmd,           \* the command given on the command line
    cliYes,           \* --yes was given
    cliFeeGiven,      \* --fee-per-gram was given
    cliOut,           \* prompts shown, lines printed and deployer calls made, in order
    cliDeclined,      \* the user answered no to a confirmation
    cliResult,        \* value returned by handle_command
    cliExit,          \* the exit status, once the process has exited
    colPc,            \* position of the Collector run (Part VIII)
    colTree,          \* the folder tree under Collector::local_folder
    colResult,        \* value returned by Collector::collect
    gitRepository,    \* GitRepository::repository: None or Some (Part IX)
    gitDisk,          \* the folder GitRepository::local_folder on disk
    gitRemote,        \* the branches the remote has
    gitLast,          \* the method called last, its result and its git2 operations
    gitSucceeded,     \* an init, load or clone_and_checkout has returned Ok
    gitCalls,         \* method calls made so far
    rfPc,             \* position of refresh_template_repository
    rfBranch,         \* the configured branch
    rfExisted,        \* the folder was there when refresh looked
    rfCurrent,        \* current branch as refresh read it
    rfLog,            \* GitRepository methods refresh has called, in order
    rfResult,         \* value returned by refresh_template_repository
    config,           \* the Config overrides are applied to (Part X)
    cfgLast,          \* the last override_data call: arguments, Config before, result
    cargoToml,        \* the Cargo.toml at the git root (Part XI)
    addPrev,          \* the add_members_to_workspace call before the last
    addLast,          \* the last add_members_to_workspace call: path, file before, result
    addCalls          \* add_members_to_workspace calls so far

deployVars == <<pc, params, register_request, request, wallet_balance, fee_response,
                fee, balance_check, result, rpcLog, validations, uploads, clients,
                txOutcome, inflight, rpcClients, malformed, calls>>
pubVars == <<pubPc, txId, waitResp, pubResult, extracted>>
sessVars == <<sessPc, sessClient, sessChallenge, sessLog, sessResult, sessCalls>>
concVars == <<cPc, frames, seen, cResult, cRpcs>>
loaderVars == <<fs, loads, nLoads, lastHasher>>
plVars == <<plPc, plValid, plFee, plCovered, plTx, plResp, plResult>>
cliVars == <<cliPc, cliCmd, cliYes, cliFeeGiven, cliOut, cliDeclined, cliResult, cliExit>>
collectorVars == <<colPc, colTree, colResult>>
gitVars == <<gitRepository, gitDisk, gitRemote, gitLast, gitSucceeded, gitCalls, rfPc, rfBranch, rfExisted, rfCurrent, rfLog, rfResult>>
cfgVars == <<config, cfgLast>>
workspaceVars == <<cargoToml, addPrev, addLast, addCalls>>
vars == <<deployVars, pubVars, sessVars, concVars, loaderVars, plVars, cliVars, collectorVars, gitVars, cfgVars, workspaceVars>>

(* What an action of one part leaves alone: the variables of the other parts. *)
nonDeployVars == <<pubVars, sessVars, concVars, loaderVars, plVars, cliVars, collectorVars, gitVars, cfgVars, workspaceVars>>
nonPubVars == <<deployVars, sessVars, concVars, loaderVars, plVars, cliVars, collectorVars, gitVars, cfgVars, workspaceVars>>
nonSessVars == <<deployVars, pubVars, concVars, loaderVars, plVars, cliVars, collectorVars, gitVars, cfgVars, workspaceVars>>
nonConcVars == <<deployVars, pubVars, sessVars, loaderVars, plVars, cliVars, collectorVars, gitVars, cfgVars, workspaceVars>>
nonLoaderVars == <<deployVars, pubVars, sessVars, concVars, plVars, cliVars, collectorVars, gitVars, cfgVars, workspaceVars>>
nonPipelineVars == <<deployVars, pubVars, sessVars, concVars, loaderVars, cliVars, collectorVars, gitVars, cfgVars, workspaceVars>>
nonCliVars == <<deployVars, pubVars, sessVars, concVars, loaderVars, plVars, collectorVars, gitVars, cfgVars, workspaceVars>>
nonCollectorVars == <<deployVars, pubVars, sessVars, concVars, loaderVars, plVars, cliVars, gitVars, cfgVars, workspaceVars>>
nonGitVars == <<deployVars, pubVars, sessVars, concVars, loaderVars, plVars, cliVars, collectorVars, cfgVars, workspaceVars>>
nonConfigVars == <<deployVars, pubVars, sessVars, concVars, loaderVars, plVars, cliVars, collectorVars, gitVars, workspaceVars>>
nonWorkspaceVars == <<deployVars, pubVars, sessVars, concVars, loaderVars, plVars, cliVars, collectorVars, gitVars, cfgVars>>

----------------------------------------------------------------------------
(* Bounds *)

MaxAmount == 3
MaxUrl == 2
MaxAddr == 2
MaxCreated == 3
MaxTx == 2
MaxCalls == 2
MaxToken == 3
MaxSessCalls == 3
MaxLen == 2
MaxLoads == 2
MaxDirs == 3
MaxGitCalls == 4
MaxValue == 1
MaxPath == 2
MaxAdds == 3

Amounts == 0..MaxAmount
Urls == 1..MaxUrl
Addrs == 1..MaxAddr
TxIds == 1..MaxTx
Tokens == 1..MaxToken

(* A template address is a 32-byte Hash (template_hasher32, Hash::try_from_vec). *)
HashLen == 32
AddrLens == {0, HashLen, HashLen + 1}

----------------------------------------------------------------------------
(* Results and errors (error.rs) *)

NoResult == [tag |-> "None"]
Ok(v) == [tag |-> "Ok", value |-> v]
Err(k) == [tag |-> "Err", kind |-> k]
IsOk(r) == r.tag = "Ok"
IsErr(r) == r.tag = "Err"
IsErrKind(r, k) == r.tag = "Err" /\ r.kind = k

InsufficientBalance(current, f) ==
    [tag |-> "Err", kind |-> "InsufficientBalance", current |-> current, fee |-> f]
WaitForTransactionTimeout(id) ==
    [tag |-> "Err", kind |-> "WaitForTransactionTimeout", id |-> id]
InvalidTransaction(id, reason) ==
    [tag |-> "Err", kind |-> "InvalidTransaction", id |-> id, reason |-> reason]
MissingTransactionResult(id) ==
    [tag |-> "Err", kind |-> "MissingTransactionResult", id |-> id]
MissingPublishedTemplate == [tag |-> "Err", kind |-> "MissingPublishedTemplate"]

Range(s) == {s[i] : i \in DOMAIN s}

----------------------------------------------------------------------------
(* Part I: TemplateDeployer (deployer.rs)                                  *)

(* DeployParams: Binary { path } or Uploaded { template, template_hash, url };
   url is 0 for Binary, which carries no URL. *)
DeployParams == {[kind |-> "Binary", url |-> 0]} \cup
                {[kind |-> "Uploaded", url |-> u] : u \in Urls}
NoParams == [kind |-> "None", url |-> 0]

(* What becomes of the registration transaction on the network once the wallet
   has accepted the request (TransactionOutcome, with the accepted diff split
   by whether it holds a template entry). *)
Outcomes == {"Accepted", "AcceptedNoTemplate", "PartiallyAccepted", "Rejected",
             "TimedOut", "MissingResult"}

DeployInit ==
    /\ pc = "idle"
    /\ params = NoParams
    /\ register_request = 0
    /\ request = 0
    /\ wallet_balance = 0
    /\ fee_response = [received |-> FALSE, present |-> FALSE, fee |-> 0]
    /\ fee = 0
    /\ balance_check = NoResult
    /\ result = NoResult
    /\ rpcLog = <<>>
    /\ validations = 0
    /\ uploads = 0
    /\ clients = 0
    /\ txOutcome = "none"
    /\ inflight = {}
    /\ rpcClients = <<>>
    /\ malformed = FALSE
    /\ calls = 0

(* Variant of validate_and_load_wasm_template: the module is not parsed. *)
validate_and_load_wasm_template_unparsed(readOk, valid) ==
    IF ~readOk THEN Err("IO") ELSE Ok("template")

(* validate_and_load_wasm_template: fs::read, then load_template_from_code. *)
validate_and_load_wasm_template(readOk, valid) ==
    IF ~readOk THEN Err("IO")
    ELSE IF ~valid THEN Err("InvalidTemplate")
    ELSE Ok("template")

(* template_registration_request: the URL the request carries, or the error. *)
template_registration_request(p, readOk, valid, upOk, url) ==
    IF p.kind = "Binary"
    THEN LET loaded == validate_and_load_wasm_template(readOk, valid)
         IN  IF IsErr(loaded) THEN loaded
             ELSE IF ~upOk THEN Err("Upload")
             ELSE Ok(url)
    ELSE Ok(p.url)

(* The file reads and uploads one call of template_registration_request makes. *)
RequestEffects(p, readOk, valid) ==
    /\ validations' = validations + (IF p.kind = "Binary" THEN 1 ELSE 0)
    /\ uploads' = uploads + (IF p.kind = "Binary" /\ readOk /\ valid THEN 1 ELSE 0)
    /\ malformed' = (malformed \/ (p.kind = "Binary" /\ readOk /\ ~valid))

(* wallet_client: Endpoint::from_str, connect, interceptor. *)
wallet_client(connOk) == IF connOk THEN Ok("client") ELSE Err("Transport")

(* The fee figure read off the response: response.fee is a plain u64 field, which
   decodes to 0 when the message carries none. *)
ResponseFee(resp) == IF resp.present THEN resp.fee ELSE 0

(* get_registration_fee: a client, the RPC, MicroMinotari::from(response.fee). *)
get_registration_fee(connOk, rpcOk, resp) ==
    IF IsErr(wallet_client(connOk)) THEN wallet_client(connOk)
    ELSE IF ~rpcOk THEN Err("Grpc")
    ELSE Ok(ResponseFee(resp))

(* Variants of check_balance: the comparison made inclusive; the error's two
   fields exchanged. *)
check_balance_inclusive(balance, f) ==
    IF f >= balance THEN InsufficientBalance(balance, f) ELSE Ok("unit")
check_balance_swapped(balance, f) ==
    IF f > balance THEN InsufficientBalance(f, balance) ELSE Ok("unit")

(* check_balance_to_deploy, lines 119-122: the comparison. *)
check_balance(balance, f) ==
    IF f > balance THEN InsufficientBalance(balance, f) ELSE Ok("unit")

(* Variant of deploy_next: the check's error is dropped instead of returned. *)
deploy_next_unchecked(check) == "register"

(* deploy, lines 73-74: `check_balance_to_deploy(..).await?` then register. *)
deploy_next(check) == IF IsErr(check) THEN "done" ELSE "register"

(* Variant of ReturnFromCheck: a failed RPC is tried again. *)
ReturnFromCheck_retry(check) ==
    /\ balance_check' = check
    /\ pc' = IF IsErrKind(check, "Grpc") THEN "balance" ELSE deploy_next(check)
    /\ result' = IF IsErr(check) /\ ~IsErrKind(check, "Grpc") THEN check ELSE result

(* check_balance_to_deploy returns `check` to deploy. *)
ReturnFromCheck(check) ==
    /\ balance_check' = check
    /\ pc' = deploy_next(check)
    /\ result' = IF deploy_next(check) = "done" THEN check ELSE result

(* Hash::try_from_vec(response.template_address) *)
try_from_vec(len, a) == IF len = HashLen THEN Ok(a) ELSE Err("InvalidHash")

(* Variant of new_client: the client made first is kept and used again. *)
new_client_cached(n) == 1

(* wallet_client, lines 229-238: every call builds a client of its own; with n
   clients made so far, the new one is client n + 1. *)
new_client(n) == n + 1

(* Variant of awaited: the call is started and not awaited. *)
not_awaited(waiting, next) == next

(* `.await` on an RPC (lines 102, 132, 146, 222): the caller is suspended at
   `waiting` until the response is there and only then goes on to `next`. *)
awaited(waiting, next) == waiting

(* An RPC goes out on a client made for it. *)
SendRpc(rpc) ==
    /\ clients' = new_client(clients)
    /\ rpcLog' = Append(rpcLog, rpc)
    /\ rpcClients' = Append(rpcClients, new_client(clients))
    /\ inflight' = inflight \cup {[rpc |-> rpc, client |-> new_client(clients)]}

(* The response of `rpc` arrives; the client, a local of the callee, is dropped. *)
Answered(rpc) == \E m \in inflight : m.rpc = rpc
RecvRpc(rpc) == inflight' = {m \in inflight : m.rpc # rpc}

(* A caller invokes deploy(params, fee_per_gram). *)
Start(p) ==
    /\ pc = "idle"
    /\ UNCHANGED nonDeployVars
    /\ params' = p
    /\ pc' = "deploy_request"
    /\ UNCHANGED <<register_request, request, wallet_balance, fee_response, fee,
                   balance_check, result, rpcLog, validations, uploads, clients,
                   txOutcome, inflight, rpcClients, malformed, calls>>

(* deploy, lines 70-72: template_registration_request(params.clone(), ..).await? *)
DeployRequest ==
    /\ pc = "deploy_request"
    /\ UNCHANGED nonDeployVars
    /\ \E readOk, valid, upOk \in BOOLEAN, url \in Urls :
         LET r == template_registration_request(params, readOk, valid, upOk, url)
         IN  /\ RequestEffects(params, readOk, valid)
             /\ register_request' = IF IsOk(r) THEN r.value ELSE register_request
             /\ pc' = IF IsErr(r) THEN "done" ELSE "check_request"
             /\ result' = IF IsErr(r) THEN r ELSE result
    /\ UNCHANGED <<params, request, wallet_balance, fee_response, fee, balance_check,
                   rpcLog, clients, txOutcome, inflight, rpcClients, calls>>

(* check_balance_to_deploy, lines 114-116: the request is built a second time. *)
CheckRequest ==
    /\ pc = "check_request"
    /\ UNCHANGED nonDeployVars
    /\ \E readOk, valid, upOk \in BOOLEAN, url \in Urls :
         LET r == template_registration_request(params, readOk, valid, upOk, url)
         IN  /\ RequestEffects(params, readOk, valid)
             /\ request' = IF IsOk(r) THEN r.value ELSE request
             /\ IF IsErr(r)
                THEN ReturnFromCheck(r)
                ELSE /\ pc' = "balance"
                     /\ UNCHANGED <<balance_check, result>>
    /\ UNCHANGED <<params, register_request, wallet_balance, fee_response, fee,
                   rpcLog, clients, txOutcome, inflight, rpcClients, calls>>

(* check_balance_to_deploy, line 117: wallet_balance() (lines 220-224), up to the
   get_balance call. *)
WalletBalance ==
    /\ pc = "balance"
    /\ UNCHANGED nonDeployVars
    /\ \E connOk \in BOOLEAN :
         LET c == wallet_client(connOk)
         IN  IF IsErr(c)
             THEN /\ ReturnFromCheck(c)
                  /\ UNCHANGED <<clients, rpcLog, rpcClients, inflight>>
             ELSE /\ SendRpc("get_balance")
                  /\ pc' = awaited("balance_await", "fee")
                  /\ UNCHANGED <<balance_check, result>>
    /\ UNCHANGED <<params, register_request, request, wallet_balance, fee_response,
                   fee, validations, uploads, txOutcome, malformed, calls>>

(* wallet_balance(), line 222-223: the get_balance response. *)
WalletBalanceResponse ==
    /\ pc = "balance_await"
    /\ Answered("get_balance")
    /\ UNCHANGED nonDeployVars
    /\ RecvRpc("get_balance")
    /\ \E rpcOk \in BOOLEAN, b \in Amounts :
         LET r == IF ~rpcOk THEN Err("Grpc") ELSE Ok(b)
         IN  /\ wallet_balance' = IF IsOk(r) THEN r.value ELSE wallet_balance
             /\ IF IsErr(r)
                THEN ReturnFromCheck(r)
                ELSE /\ pc' = "fee"
                     /\ UNCHANGED <<balance_check, result>>
    /\ UNCHANGED <<params, register_request, request, fee_response, fee, validations,
                   uploads, txOutcome, clients, rpcLog, rpcClients, malformed, calls>>

(* check_balance_to_deploy, line 118: get_registration_fee(request) (lines
   125-136), up to the get_template_registration_fee call. *)
RegistrationFee ==
    /\ pc = "fee"
    /\ UNCHANGED nonDeployVars
    /\ \E connOk \in BOOLEAN :
         LET c == wallet_client(connOk)
         IN  IF IsErr(c)
             THEN /\ ReturnFromCheck(c)
                  /\ UNCHANGED <<clients, rpcLog, rpcClients, inflight>>
             ELSE /\ SendRpc("get_template_registration_fee")
                  /\ pc' = awaited("fee_await", "register")
                  /\ UNCHANGED <<balance_check, result>>
    /\ UNCHANGED <<params, register_request, request, wallet_balance, fee_response,
                   fee, validations, uploads, txOutcome, malformed, calls>>

(* get_registration_fee, lines 132-135, then check_balance_to_deploy, lines
   119-122: the fee response and the comparison; there is no suspension point
   between the two. *)
RegistrationFeeResponse ==
    /\ pc = "fee_await"
    /\ Answered("get_template_registration_fee")
    /\ UNCHANGED nonDeployVars
    /\ RecvRpc("get_template_registration_fee")
    /\ \E rpcOk, present \in BOOLEAN, f \in Amounts :
         LET resp == [present |-> present, fee |-> IF present THEN f ELSE 0]
             r == get_registration_fee(TRUE, rpcOk, resp)
         IN  /\ fee_response' = IF IsOk(r)
                                THEN [received |-> TRUE, present |-> resp.present,
                                      fee |-> resp.fee]
                                ELSE fee_response
             /\ fee' = IF IsOk(r) THEN r.value ELSE fee
             /\ IF IsErr(r)
                THEN ReturnFromCheck(r)
                ELSE ReturnFromCheck(check_balance(wallet_balance, r.value))
    /\ UNCHANGED <<params, register_request, request, wallet_balance, validations,
                   uploads, txOutcome, clients, rpcLog, rpcClients, malformed, calls>>

(* deploy, line 74: register_template(register_request) (lines 139-150), up to
   the create_template_registration call. *)
RegisterTemplate ==
    /\ pc = "register"
    /\ UNCHANGED nonDeployVars
    /\ \E connOk \in BOOLEAN :
         LET c == wallet_client(connOk)
         IN  IF IsErr(c)
             THEN /\ result' = c
                  /\ pc' = "done"
                  /\ UNCHANGED <<clients, rpcLog, rpcClients, inflight>>
             ELSE /\ SendRpc("create_template_registration")
                  /\ pc' = awaited("register_await", "done")
                  /\ UNCHANGED result
    /\ UNCHANGED <<params, register_request, request, wallet_balance, fee_response,
                   fee, balance_check, validations, uploads, txOutcome, malformed,
                   calls>>

(* register_template, lines 146-149: the response; deploy returns what
   Hash::try_from_vec makes of response.template_address. *)
RegisterTemplateResponse ==
    /\ pc = "register_await"
    /\ Answered("create_template_registration")
    /\ UNCHANGED nonDeployVars
    /\ RecvRpc("create_template_registration")
    /\ \E rpcOk \in BOOLEAN, len \in AddrLens, a \in Addrs, o \in Outcomes :
         LET r == IF ~rpcOk THEN Err("Grpc") ELSE try_from_vec(len, a)
         IN  /\ txOutcome' = IF rpcOk THEN o ELSE txOutcome
             /\ result' = r
             /\ pc' = "done"
    /\ UNCHANGED <<params, register_request, request, wallet_balance, fee_response,
                   fee, balance_check, validations, uploads, clients, rpcLog,
                   rpcClients, malformed, calls>>

----------------------------------------------------------------------------
(* registration_fee (deployer.rs:89-106), the fee estimate a caller asks for   *)
(* on its own; any number of calls, one after the other.                      *)

(* Variant of registration_fee_rpc: the registration itself is called. *)
registration_fee_rpc_registers == "create_template_registration"

(* registration_fee, lines 100-101: the RPC it sends. *)
registration_fee_rpc == "get_template_registration_fee"

(* A caller invokes registration_fee(params, fee_per_gram). *)
FeeStart(p) ==
    /\ pc \in {"idle", "done"}
    /\ calls < MaxCalls
    /\ UNCHANGED nonDeployVars
    /\ calls' = calls + 1
    /\ params' = p
    /\ pc' = "rf_request"
    /\ result' = NoResult
    /\ UNCHANGED <<register_request, request, wallet_balance, fee_response, fee,
                   balance_check, rpcLog, validations, uploads, clients, txOutcome,
                   inflight, rpcClients, malformed>>

(* registration_fee, lines 96-98: template_registration_request(params, ..).await? *)
FeeRequest ==
    /\ pc = "rf_request"
    /\ UNCHANGED nonDeployVars
    /\ \E readOk, valid, upOk \in BOOLEAN, url \in Urls :
         LET r == template_registration_request(params, readOk, valid, upOk, url)
         IN  /\ RequestEffects(params, readOk, valid)
             /\ request' = IF IsOk(r) THEN r.value ELSE request
             /\ pc' = IF IsErr(r) THEN "done" ELSE "rf_client"
             /\ result' = IF IsErr(r) THEN r ELSE result
    /\ UNCHANGED <<params, register_request, wallet_balance, fee_response, fee,
                   balance_check, rpcLog, clients, txOutcome, inflight, rpcClients,
                   calls>>

(* registration_fee, lines 99-101: wallet_client(), then the RPC goes out. *)
FeeQuery ==
    /\ pc = "rf_client"
    /\ UNCHANGED nonDeployVars
    /\ \E connOk \in BOOLEAN :
         LET c == wallet_client(connOk)
         IN  IF IsErr(c)
             THEN /\ result' = c
                  /\ pc' = "done"
                  /\ UNCHANGED <<clients, rpcLog, rpcClients, inflight>>
             ELSE /\ SendRpc(registration_fee_rpc)
                  /\ pc' = awaited("rf_await", "done")
                  /\ UNCHANGED result
    /\ UNCHANGED <<params, register_request, request, wallet_balance, fee_response,
                   fee, balance_check, validations, uploads, txOutcome, malformed,
                   calls>>

(* registration_fee, lines 102-105: the response; the wallet registers a template
   only when it is sent create_template_registration. *)
FeeResponse ==
    /\ pc = "rf_await"
    /\ inflight # {}
    /\ UNCHANGED nonDeployVars
    /\ inflight' = {}
    /\ \E rpcOk, present \in BOOLEAN, f \in Amounts, o \in Outcomes :
         LET resp == [present |-> present, fee |-> IF present THEN f ELSE 0]
             r == get_registration_fee(TRUE, rpcOk, resp)
             registers == \E m \in inflight : m.rpc = "create_template_registration"
         IN  /\ fee_response' = IF IsOk(r)
                                THEN [received |-> TRUE, present |-> resp.present,
                                      fee |-> resp.fee]
                                ELSE fee_response
             /\ fee' = IF IsOk(r) THEN r.value ELSE fee
             /\ txOutcome' = IF rpcOk /\ registers THEN o ELSE txOutcome
             /\ result' = r
             /\ pc' = "done"
    /\ UNCHANGED <<params, register_request, request, wallet_balance, balance_check,
                   validations, uploads, clients, rpcLog, rpcClients, malformed,
                   calls>>

----------------------------------------------------------------------------
(* Part II: the Publisher's outcome handling and the Result Extractor      *)
(* (spec.md 4.5, 4.6 and the RPC shapes of section 6).                     *)

Kinds == {"template", "component"}
Reasons == {"execution failed", "fee exceeded"}

(* An entry of the state diff's "created" list: identifier kind and address. *)
Entries == [kind : Kinds, addr : Addrs]

SeqsUpTo(S, n) == UNION {[1..k -> S] : k \in 0..n}
CreatedLists == SeqsUpTo(Entries, MaxCreated)

(* The result payload of a wait response: absent, Accept(diff),
   AcceptFeeRejectRest(diff, reason) or Reject(reason). *)
TxResults ==
    {[variant |-> "None", created |-> <<>>, reason |-> ""]} \cup
    {[variant |-> "Accept", created |-> c, reason |-> ""] : c \in CreatedLists} \cup
    {[variant |-> "AcceptFeeRejectRest", created |-> c, reason |-> r] :
         c \in CreatedLists, r \in Reasons} \cup
    {[variant |-> "Reject", created |-> <<>>, reason |-> r] : r \in Reasons}

(* wait_transaction_result -> {timed_out, status, result?} *)
WaitResponses == [timed_out : BOOLEAN, result : TxResults]
NoResponse == [timed_out |-> FALSE, result |-> [variant |-> "Unset", created |-> <<>>,
                                                 reason |-> ""]]

PublisherInit ==
    /\ pubPc = "idle"
    /\ txId = 0
    /\ waitResp = NoResponse
    /\ pubResult = NoResult
    /\ extracted = FALSE

(* Variants of publisher_outcome: the result payload inspected before the
   timeout flag; partial acceptance taken for acceptance; no check for a missing
   payload. *)
publisher_outcome_result_first(id, resp) ==
    IF resp.result.variant = "None" THEN MissingTransactionResult(id)
    ELSE IF resp.result.variant # "Accept"
         THEN InvalidTransaction(id, resp.result.reason)
    ELSE IF resp.timed_out THEN WaitForTransactionTimeout(id)
    ELSE Ok("extract")
publisher_outcome_partial_ok(id, resp) ==
    IF resp.timed_out THEN WaitForTransactionTimeout(id)
    ELSE IF resp.result.variant = "None" THEN MissingTransactionResult(id)
    ELSE IF resp.result.variant = "Reject"
         THEN InvalidTransaction(id, resp.result.reason)
    ELSE Ok("extract")
publisher_outcome_no_payload_check(id, resp) ==
    IF resp.timed_out THEN WaitForTransactionTimeout(id)
    ELSE IF resp.result.variant # "Accept"
         THEN InvalidTransaction(id, resp.result.reason)
    ELSE Ok("extract")

(* Outcome handling, in the order of spec.md 4.5: timed out, missing result,
   a variant other than full acceptance, full acceptance ("extract"). *)
publisher_outcome(id, resp) ==
    IF resp.timed_out THEN WaitForTransactionTimeout(id)
    ELSE IF resp.result.variant = "None" THEN MissingTransactionResult(id)
    ELSE IF resp.result.variant # "Accept"
         THEN InvalidTransaction(id, resp.result.reason)
    ELSE Ok("extract")

(* Variant of first_template: the last template entry instead of the first. *)
RECURSIVE last_template(_, _)
last_template(created, i) ==
    IF i > Len(created) THEN 0
    ELSE LET later == last_template(created, i + 1)
         IN  IF later # 0 THEN later
             ELSE IF created[i].kind = "template" THEN i
             ELSE 0

(* Variant of first_template: the entry's kind is not looked at. *)
first_entry(created, i) == IF i > Len(created) THEN 0 ELSE i

(* The first index at or after i whose entry is of template kind; 0 when none. *)
RECURSIVE first_template(_, _)
first_template(created, i) ==
    IF i > Len(created) THEN 0
    ELSE IF created[i].kind = "template" THEN i
    ELSE first_template(created, i + 1)

(* Variant of extract_template_address: a default address when none is found. *)
extract_template_address_default(created) ==
    LET i == first_template(created, 1)
    IN  IF i = 0 THEN Ok(0) ELSE Ok(created[i].addr)

(* extract_template_address(diff): scan "created" in its returned order. *)
extract_template_address(created) ==
    LET i == first_template(created, 1)
    IN  IF i = 0 THEN MissingPublishedTemplate ELSE Ok(created[i].addr)

(* publish_template{dry_run = false} -> {transaction_id} *)
PublishTemplate ==
    /\ pubPc = "idle"
    /\ UNCHANGED nonPubVars
    /\ \E rpcOk \in BOOLEAN, id \in TxIds :
         IF rpcOk
         THEN /\ txId' = id
              /\ pubPc' = "wait"
              /\ UNCHANGED pubResult
         ELSE /\ pubResult' = Err("WalletDaemonClient")
              /\ pubPc' = "done"
              /\ UNCHANGED txId
    /\ UNCHANGED <<waitResp, extracted>>

(* wait_transaction_result{transaction_id, timeout_secs}: one blocking call. *)
WaitTransactionResult ==
    /\ pubPc = "wait"
    /\ UNCHANGED nonPubVars
    /\ \E rpcOk \in BOOLEAN, resp \in WaitResponses :
         IF rpcOk
         THEN /\ waitResp' = resp
              /\ pubPc' = "outcome"
              /\ UNCHANGED pubResult
         ELSE /\ pubResult' = Err("WalletDaemonClient")
              /\ pubPc' = "done"
              /\ UNCHANGED waitResp
    /\ UNCHANGED <<txId, extracted>>

(* The Publisher inspects the response; full acceptance proceeds to extraction. *)
HandleOutcome ==
    /\ pubPc = "outcome"
    /\ UNCHANGED nonPubVars
    /\ LET r == publisher_outcome(txId, waitResp)
       IN  IF IsErr(r)
           THEN /\ pubResult' = r
                /\ pubPc' = "done"
           ELSE /\ pubPc' = "extract"
                /\ UNCHANGED pubResult
    /\ UNCHANGED <<txId, waitResp, extracted>>

(* The Result Extractor consumes the accepted diff. *)
ExtractTemplateAddress ==
    /\ pubPc = "extract"
    /\ UNCHANGED nonPubVars
    /\ extracted' = TRUE
    /\ pubResult' = extract_template_address(waitResp.result.created)
    /\ pubPc' = "done"
    /\ UNCHANGED <<txId, waitResp>>

----------------------------------------------------------------------------
(* Part III: wallet_daemon_client (deployer.rs:241-264)                    *)

(* WalletDaemonClient::connect(address, None): a client without a token. *)
NoToken == 0
NoClient == [connected |-> FALSE, token |-> NoToken]

SessionInit ==
    /\ sessPc = "idle"
    /\ sessClient = NoClient
    /\ sessChallenge = NoToken
    /\ sessLog = <<>>
    /\ sessResult = NoResult
    /\ sessCalls = 0

(* A request as it leaves the client: its body and the bearer token attached. *)
Sent(rpc, body, client) == [rpc |-> rpc, body |-> body, bearer |-> client.token]

(* AuthLoginRequest of wallet_daemon_client. *)
auth_login_request == [permissions |-> <<"Admin">>, duration |-> "None"]

(* AuthLoginAcceptRequest of wallet_daemon_client. *)
auth_accept_request(auth_token) == [auth_token |-> auth_token, name |-> "default"]

(* client.set_auth_token(token) *)
set_auth_token(client, token) == [client EXCEPT !.token = token]

(* Variant of after_handshake_error: the failure is swallowed. *)
after_handshake_error_ignored(next) == next

(* `?` on a failed handshake step: wallet_daemon_client returns. *)
after_handshake_error(next) == "failed"

(* WalletDaemonClient::connect(..)? *)
Connect ==
    /\ sessPc = "idle"
    /\ UNCHANGED nonSessVars
    /\ \E ok \in BOOLEAN :
        IF ok
        THEN /\ sessClient' = [connected |-> TRUE, token |-> NoToken]
             /\ sessPc' = "auth_request"
             /\ UNCHANGED sessResult
        ELSE /\ sessResult' = Err("WalletDaemonClient")
             /\ sessPc' = "failed"
             /\ UNCHANGED sessClient
    /\ UNCHANGED <<sessChallenge, sessLog, sessCalls>>

(* client.auth_request(AuthLoginRequest{..}).await? *)
AuthRequest ==
    /\ sessPc = "auth_request"
    /\ UNCHANGED nonSessVars
    /\ sessLog' = Append(sessLog, Sent("auth_request", auth_login_request, sessClient))
    /\ \E ok \in BOOLEAN, auth_token \in Tokens :
        IF ok
        THEN /\ sessChallenge' = auth_token
             /\ sessPc' = "auth_accept"
             /\ UNCHANGED sessResult
        ELSE /\ sessResult' = Err("WalletDaemonClient")
             /\ sessPc' = after_handshake_error("auth_accept")
             /\ UNCHANGED sessChallenge
    /\ UNCHANGED <<sessClient, sessCalls>>

(* client.auth_accept(AuthLoginAcceptRequest{..}).await?, then set_auth_token
   and Ok(client). *)
AuthAccept ==
    /\ sessPc = "auth_accept"
    /\ UNCHANGED nonSessVars
    /\ sessLog' = Append(sessLog,
                         Sent("auth_accept", auth_accept_request(sessChallenge), sessClient))
    /\ \E ok \in BOOLEAN, permissions_token \in Tokens :
        IF ok
        THEN /\ sessClient' = set_auth_token(sessClient, permissions_token)
             /\ sessResult' = Ok(set_auth_token(sessClient, permissions_token))
             /\ sessPc' = "returned"
        ELSE /\ sessResult' = Err("WalletDaemonClient")
             /\ sessPc' = after_handshake_error("returned")
             /\ UNCHANGED sessClient
    /\ UNCHANGED <<sessChallenge, sessCalls>>

(* An RPC made by the holder of the returned client. *)
SessionRpcs == {"accounts_get_default", "publish_template"}

SessionCall ==
    /\ sessPc = "returned"
    /\ sessCalls < MaxSessCalls
    /\ UNCHANGED nonSessVars
    /\ \E rpc \in SessionRpcs :
        sessLog' = Append(sessLog, Sent(rpc, "request", sessClient))
    /\ sessCalls' = sessCalls + 1
    /\ UNCHANGED <<sessPc, sessClient, sessChallenge, sessResult>>

----------------------------------------------------------------------------
(* Part IV: concurrent deploy() calls on one TemplateDeployer (&self)      *)

Tasks == {"a", "b"}

NoFrame == [params |-> NoParams, register_request |-> 0, request |-> 0,
            wallet_balance |-> 0, fee |-> 0]
NothingSeen == [req1 |-> NoResult, req2 |-> NoResult, balance |-> NoResult,
                fee |-> NoResult, reg |-> NoResult]

ConcInit ==
    /\ cPc = [t \in Tasks |-> "idle"]
    /\ frames = [t \in Tasks |-> NoFrame]
    /\ seen = [t \in Tasks |-> NothingSeen]
    /\ cResult = [t \in Tasks |-> NoResult]
    /\ cRpcs = {}

(* The URL the uploader answers with for the file of task t: each task deploys
   a file of its own, and the two files get different URLs. *)
UploadUrl(t) == IF t = "a" THEN 1 ELSE MaxUrl

(* Variant of slot: every task keeps its locals in the same place. *)
slot_shared(t) == "a"

(* The locals of an async fn call live in that call's own future: task t's
   deploy() reads and writes frame t; TemplateDeployer (network, uploader) is
   borrowed immutably. *)
slot(t) == t

(* A wallet call of a task: wallet_client(), the RPC, the decoded answer. *)
wallet_call(connOk, rpcOk, answer) ==
    IF IsErr(wallet_client(connOk)) THEN wallet_client(connOk)
    ELSE IF ~rpcOk THEN Err("Grpc")
    ELSE answer

RpcSent(t, rpc, req, connOk) ==
    cRpcs' = IF connOk
             THEN cRpcs \cup {[task |-> t, owner |-> slot(t), rpc |-> rpc, request |-> req]}
             ELSE cRpcs

(* deploy() run on its own against the answers `s`: lines 65-75 with 108-123. *)
deploy_alone(s) ==
    IF IsErr(s.req1) THEN s.req1
    ELSE IF IsErr(s.req2) THEN s.req2
    ELSE IF IsErr(s.balance) THEN s.balance
    ELSE IF IsErr(s.fee) THEN s.fee
    ELSE IF s.fee.value > s.balance.value
         THEN InsufficientBalance(s.balance.value, s.fee.value)
    ELSE s.reg

TaskStart(t, p) ==
    /\ cPc[t] = "idle"
    /\ UNCHANGED nonConcVars
    /\ frames' = [frames EXCEPT ![slot(t)].params = p]
    /\ cPc' = [cPc EXCEPT ![t] = "deploy_request"]
    /\ UNCHANGED <<seen, cResult, cRpcs>>

(* deploy, lines 70-72 *)
TaskDeployRequest(t) ==
    /\ cPc[t] = "deploy_request"
    /\ UNCHANGED nonConcVars
    /\ \E readOk, valid, upOk \in BOOLEAN :
         LET r == template_registration_request(frames[slot(t)].params,
                                                readOk, valid, upOk, UploadUrl(t))
         IN  /\ seen' = [seen EXCEPT ![t].req1 = r]
             /\ frames' = IF IsOk(r)
                          THEN [frames EXCEPT ![slot(t)].register_request = r.value]
                          ELSE frames
             /\ cPc' = [cPc EXCEPT ![t] = IF IsErr(r) THEN "done" ELSE "check_request"]
             /\ cResult' = IF IsErr(r) THEN [cResult EXCEPT ![t] = r] ELSE cResult
    /\ UNCHANGED cRpcs

(* check_balance_to_deploy, lines 114-116 *)
TaskCheckRequest(t) ==
    /\ cPc[t] = "check_request"
    /\ UNCHANGED nonConcVars
    /\ \E readOk, valid, upOk \in BOOLEAN :
         LET r == template_registration_request(frames[slot(t)].params,
                                                readOk, valid, upOk, UploadUrl(t))
         IN  /\ seen' = [seen EXCEPT ![t].req2 = r]
             /\ frames' = IF IsOk(r)
                          THEN [frames EXCEPT ![slot(t)].request = r.value]
                          ELSE frames
             /\ cPc' = [cPc EXCEPT ![t] = IF IsErr(r) THEN "done" ELSE "balance"]
             /\ cResult' = IF IsErr(r) THEN [cResult EXCEPT ![t] = r] ELSE cResult
    /\ UNCHANGED cRpcs

(* check_balance_to_deploy, line 117: wallet_balance().await? *)
TaskWalletBalance(t) ==
    /\ cPc[t] = "balance"
    /\ UNCHANGED nonConcVars
    /\ \E connOk, rpcOk \in BOOLEAN, available_balance \in Amounts :
         LET r == wallet_call(connOk, rpcOk, Ok(available_balance))
         IN  /\ RpcSent(t, "get_balance", 0, connOk)
             /\ seen' = [seen EXCEPT ![t].balance = r]
             /\ frames' = IF IsOk(r)
                          THEN [frames EXCEPT ![slot(t)].wallet_balance = r.value]
                          ELSE frames
             /\ cPc' = [cPc EXCEPT ![t] = IF IsErr(r) THEN "done" ELSE "fee"]
             /\ cResult' = IF IsErr(r) THEN [cResult EXCEPT ![t] = r] ELSE cResult

(* check_balance_to_deploy, lines 118-122: the fee, then the comparison. *)
TaskRegistrationFee(t) ==
    /\ cPc[t] = "fee"
    /\ UNCHANGED nonConcVars
    /\ \E connOk, rpcOk, present \in BOOLEAN, f \in Amounts :
         LET r == get_registration_fee(connOk, rpcOk, [present |-> present, fee |-> f])
             check == IF IsErr(r) THEN r
                      ELSE check_balance(frames[slot(t)].wallet_balance, r.value)
         IN  /\ RpcSent(t, "get_template_registration_fee", frames[slot(t)].request, connOk)
             /\ seen' = [seen EXCEPT ![t].fee = r]
             /\ frames' = IF IsOk(r)
                          THEN [frames EXCEPT ![slot(t)].fee = r.value]
                          ELSE frames
             /\ cPc' = [cPc EXCEPT ![t] = deploy_next(check)]
             /\ cResult' = IF IsErr(check) THEN [cResult EXCEPT ![t] = check] ELSE cResult

(* deploy, line 74: register_template(register_request).await *)
TaskRegisterTemplate(t) ==
    /\ cPc[t] = "register"
    /\ UNCHANGED nonConcVars
    /\ \E connOk, rpcOk \in BOOLEAN, len \in AddrLens, a \in Addrs :
         LET r == wallet_call(connOk, rpcOk, try_from_vec(len, a))
         IN  /\ RpcSent(t, "create_template_registration",
                        frames[slot(t)].register_request, connOk)
             /\ seen' = [seen EXCEPT ![t].reg = r]
             /\ cResult' = [cResult EXCEPT ![t] = r]
             /\ cPc' = [cPc EXCEPT ![t] = "done"]
    /\ UNCHANGED frames

----------------------------------------------------------------------------
(* Part V: the Loader's content hash (deployer.rs:208-217, spec.md 4.1)    *)

(* Module bytes: non-empty sequences of bits, up to MaxLen of them. *)
WasmCodes == UNION {[1..n -> {0, 1}] : n \in 1..MaxLen}

(* The state of a hasher on which nothing has been chained: the domain-separated
   hasher that template_hasher32() builds. *)
NewHasher == [state |-> 7]

(* Variant of template_hasher32: the hasher used last is taken up again. *)
template_hasher32_kept(last) == last

(* template_hasher32(): every call builds a hasher of its own. *)
template_hasher32(last) == NewHasher

(* hasher.chain(&wasm_code): the bytes are absorbed in order. *)
RECURSIVE chain(_, _)
chain(h, code) ==
    IF code = <<>> THEN h
    ELSE chain([state |-> (h.state * 31 + Head(code) + 1) % 251], Tail(code))

(* line 215: template_hasher32().chain(&wasm_code).result() *)
wasm_hash(last, wasm_code) == chain(template_hasher32(last), wasm_code).state

LoaderInit ==
    /\ fs = <<0>>
    /\ loads = {}
    /\ nLoads = 0
    /\ lastHasher = NewHasher

Loaded(source, wasm_code) ==
    /\ loads' = loads \cup {[source |-> source, bytes |-> wasm_code,
                             hash |-> wasm_hash(lastHasher, wasm_code)]}
    /\ lastHasher' = chain(template_hasher32(lastHasher), wasm_code)
    /\ nLoads' = nLoads + 1

(* The file is replaced on disk (a rebuild of the template). *)
WriteFile ==
    /\ UNCHANGED nonLoaderVars
    /\ \E code \in WasmCodes : code # fs /\ fs' = code
    /\ UNCHANGED <<loads, nLoads, lastHasher>>

(* validate_and_load_wasm_template(path): fs::read, then the hash of what was read. *)
LoadPath ==
    /\ nLoads < MaxLoads
    /\ UNCHANGED nonLoaderVars
    /\ Loaded("Path", fs)
    /\ UNCHANGED fs

(* The Loader given Template::Binary(bytes): the bytes are hashed as they are. *)
LoadBinary ==
    /\ nLoads < MaxLoads
    /\ UNCHANGED nonLoaderVars
    /\ \E code \in WasmCodes : Loaded("Binary", code)
    /\ UNCHANGED fs

----------------------------------------------------------------------------
(* Part VI: the pipeline end to end (spec.md 2 and 7): Loader, Fee         *)
(* Estimator, Balance Guard, Publisher, Result Extractor                   *)

PipelineInit ==
    /\ plPc = "idle"
    /\ plValid = FALSE
    /\ plFee = NoResult
    /\ plCovered = FALSE
    /\ plTx = 0
    /\ plResp = NoResponse
    /\ plResult = NoResult

(* A stage's error ends the pipeline; otherwise the next stage runs. *)
PipelineStep(r, next) ==
    /\ plPc' = IF IsErr(r) THEN "done" ELSE next
    /\ plResult' = IF IsErr(r) THEN r ELSE plResult

(* Loader: validation of the binary. *)
PipelineLoad ==
    /\ plPc = "idle"
    /\ UNCHANGED nonPipelineVars
    /\ \E valid \in BOOLEAN :
         /\ plValid' = valid
         /\ PipelineStep(validate_and_load_wasm_template(TRUE, valid), "estimate")
    /\ UNCHANGED <<plFee, plCovered, plTx, plResp>>

(* Fee Estimator: the dry-run publish; a response without a fee is an
   InvalidResponse. *)
PipelineEstimate ==
    /\ plPc = "estimate"
    /\ UNCHANGED nonPipelineVars
    /\ \E rpcOk, present \in BOOLEAN, f \in Amounts :
         LET r == IF ~rpcOk THEN Err("WalletDaemonClient")
                  ELSE IF ~present THEN Err("InvalidResponse")
                  ELSE Ok(f)
         IN  /\ plFee' = r
             /\ PipelineStep(r, "balance")
    /\ UNCHANGED <<plValid, plCovered, plTx, plResp>>

(* Balance Guard: the account balance against the estimate. *)
PipelineBalance ==
    /\ plPc = "balance"
    /\ UNCHANGED nonPipelineVars
    /\ \E rpcOk \in BOOLEAN, balance \in Amounts :
         LET r == IF ~rpcOk THEN Err("WalletDaemonClient")
                  ELSE check_balance(balance, plFee.value)
         IN  /\ plCovered' = (rpcOk /\ plFee.value <= balance)
             /\ PipelineStep(r, "publish")
    /\ UNCHANGED <<plValid, plFee, plTx, plResp>>

(* Publisher: publish_template{dry_run = false} -> {transaction_id}. *)
PipelinePublish ==
    /\ plPc = "publish"
    /\ UNCHANGED nonPipelineVars
    /\ \E rpcOk \in BOOLEAN, id \in TxIds :
         /\ plTx' = IF rpcOk THEN id ELSE plTx
         /\ PipelineStep(IF rpcOk THEN Ok(id) ELSE Err("WalletDaemonClient"), "wait")
    /\ UNCHANGED <<plValid, plFee, plCovered, plResp>>

(* Publisher and Result Extractor: the wait, its outcome, the address. *)
PipelineWait ==
    /\ plPc = "wait"
    /\ UNCHANGED nonPipelineVars
    /\ \E rpcOk \in BOOLEAN, resp \in WaitResponses :
         LET outcome == publisher_outcome(plTx, resp)
         IN  /\ plResp' = IF rpcOk THEN resp ELSE plResp
             /\ plResult' = IF ~rpcOk THEN Err("WalletDaemonClient")
                            ELSE IF IsErr(outcome) THEN outcome
                            ELSE extract_template_address(resp.result.created)
             /\ plPc' = "done"
    /\ UNCHANGED <<plValid, plFee, plCovered, plTx>>

----------------------------------------------------------------------------
(* Part VII: the CLI process: main (cli/src/main.rs), Cli::handle_command  *)
(* (cli/command.rs) and the deploy command (cli/commands/deploy.rs)        *)

Commands == {"create", "add", "deploy"}

CliInit ==
    /\ cliPc = "start"
    /\ cliCmd = "none"
    /\ cliYes = FALSE
    /\ cliFeeGiven = FALSE
    /\ cliOut = <<>>
    /\ cliDeclined = FALSE
    /\ cliResult = NoResult
    /\ cliExit = <<>>

(* Something the process writes to the terminal or calls on the deployer. *)
Event(ev, arg) == [ev |-> ev, arg |-> arg]
Emit(ev, arg) == cliOut' = Append(cliOut, Event(ev, arg))
Events(ev) == {i \in DOMAIN cliOut : cliOut[i].ev = ev}

(* `?`: an Err is what the command returns; otherwise the next statement runs. *)
CliStep(r, next) ==
    /\ cliPc' = IF IsErr(r) THEN "returned" ELSE next
    /\ cliResult' = IF IsErr(r) THEN r ELSE cliResult

(* Variant of confirmed: the answer is not looked at. *)
confirmed_anyway(confirmation) == Ok("unit")

(* `if !confirmation { return Err(anyhow!("Deployment aborted!")) }` *)
confirmed(confirmation) ==
    IF confirmation THEN Ok("unit") ELSE Err("Deployment aborted")

(* Variant of exit_status: the process always exits with zero. *)
exit_status_zero(r) == 0

(* main: exit(1) when handle_command returned Err, exit(0) otherwise. *)
exit_status(r) == IF IsErr(r) THEN 1 ELSE 0

(* Cli::parse(): the command and its flags. *)
CliParse ==
    /\ cliPc = "start"
    /\ UNCHANGED nonCliVars
    /\ \E cmd \in Commands, yes, feeGiven \in BOOLEAN :
         /\ cliCmd' = cmd
         /\ cliYes' = yes
         /\ cliFeeGiven' = feeGiven
    /\ cliPc' = "init"
    /\ UNCHANGED <<cliOut, cliDeclined, cliResult, cliExit>>

(* handle_command: init_base_dir_and_config().await? *)
CliInitConfig ==
    /\ cliPc = "init"
    /\ UNCHANGED nonCliVars
    /\ \E ok \in BOOLEAN : CliStep(IF ok THEN Ok("config") ELSE Err("Config"), "refresh_project")
    /\ UNCHANGED <<cliCmd, cliYes, cliFeeGiven, cliOut, cliDeclined, cliExit>>

(* handle_command: the two refresh_template_repository(..).await? calls.  With a
   repository URL that has no "/", `len() - 2` on line 195 either panics or
   wraps, so that the lookup fails: the process panics or the call is an Err. *)
CliRefresh ==
    /\ cliPc \in {"refresh_project", "refresh_wasm"}
    /\ UNCHANGED nonCliVars
    /\ \E outcome \in {"ok", "err", "panic"} :
         IF outcome = "panic"
         THEN /\ Emit("panic", 0)
              /\ cliExit' = <<101>>
              /\ cliPc' = "exited"
              /\ UNCHANGED cliResult
         ELSE /\ CliStep(IF outcome = "ok" THEN Ok("repo") ELSE Err("Git"),
                         IF cliPc = "refresh_project" THEN "refresh_wasm"
                         ELSE IF cliCmd = "deploy" THEN "deploy_setup" ELSE "other")
              /\ UNCHANGED <<cliOut, cliExit>>
    /\ UNCHANGED <<cliCmd, cliYes, cliFeeGiven, cliDeclined>>

(* handle_command: create::handle or add::handle. *)
CliOtherCommand ==
    /\ cliPc = "other"
    /\ UNCHANGED nonCliVars
    /\ \E ok \in BOOLEAN :
         /\ cliResult' = IF ok THEN Ok("unit") ELSE Err("Command")
         /\ cliPc' = "returned"
    /\ UNCHANGED <<cliCmd, cliYes, cliFeeGiven, cliOut, cliDeclined, cliExit>>

(* deploy::handle: project and network configuration, project lookup, build,
   TemplateDeployer::new. *)
DeploySetup ==
    /\ cliPc = "deploy_setup"
    /\ UNCHANGED nonCliVars
    /\ \E ok \in BOOLEAN : CliStep(IF ok THEN Ok("deployer") ELSE Err("Setup"), "confirm_cost")
    /\ UNCHANGED <<cliCmd, cliYes, cliFeeGiven, cliOut, cliDeclined, cliExit>>

(* deploy::handle, lines 114-121: the first confirmation. *)
DeployConfirmCost ==
    /\ cliPc = "confirm_cost"
    /\ UNCHANGED nonCliVars
    /\ IF cliYes
       THEN /\ cliPc' = "fee_per_gram"
            /\ UNCHANGED <<cliOut, cliDeclined, cliResult>>
       ELSE /\ Emit("prompt_cost", 0)
            /\ \E ioOk, confirmation \in BOOLEAN :
                 /\ cliDeclined' = (ioOk /\ ~confirmation)
                 /\ CliStep(IF ioOk THEN confirmed(confirmation) ELSE Err("IO"),
                            "fee_per_gram")
    /\ UNCHANGED <<cliCmd, cliYes, cliFeeGiven, cliExit>>

(* deploy::handle, lines 124-139: the fee per gram, asked for when not given. *)
DeployFeePerGram ==
    /\ cliPc = "fee_per_gram"
    /\ UNCHANGED nonCliVars
    /\ IF cliFeeGiven
       THEN /\ cliPc' = "upload"
            /\ UNCHANGED <<cliOut, cliResult>>
       ELSE /\ Emit("prompt_fee_per_gram", 0)
            /\ \E ioOk \in BOOLEAN :
                 CliStep(IF ioOk THEN Ok("fee_per_gram") ELSE Err("IO"), "upload")
    /\ UNCHANGED <<cliCmd, cliYes, cliFeeGiven, cliDeclined, cliExit>>

(* deploy::handle, lines 142-145: deployer.upload_template(..).await? *)
DeployUpload ==
    /\ cliPc = "upload"
    /\ UNCHANGED nonCliVars
    /\ Emit("upload_template", 0)
    /\ \E ok \in BOOLEAN : CliStep(IF ok THEN Ok("params") ELSE Err("Deployer"), "estimate")
    /\ UNCHANGED <<cliCmd, cliYes, cliFeeGiven, cliDeclined, cliExit>>

(* deploy::handle, lines 147-150: without --yes, deployer.registration_fee. *)
DeployEstimate ==
    /\ cliPc = "estimate"
    /\ UNCHANGED nonCliVars
    /\ IF cliYes
       THEN /\ cliPc' = "deploy"
            /\ UNCHANGED <<cliOut, cliResult>>
       ELSE \E ok \in BOOLEAN, f \in Amounts :
                /\ cliOut' = IF ok
                             THEN cliOut \o <<Event("registration_fee", 0),
                                              Event("prompt_fee", f)>>
                             ELSE Append(cliOut, Event("registration_fee", 0))
                /\ CliStep(IF ok THEN Ok(f) ELSE Err("Deployer"), "confirm_fee")
    /\ UNCHANGED <<cliCmd, cliYes, cliFeeGiven, cliDeclined, cliExit>>

(* deploy::handle, lines 151-159: the answer to the fee confirmation. *)
DeployConfirmFee ==
    /\ cliPc = "confirm_fee"
    /\ UNCHANGED nonCliVars
    /\ \E ioOk, confirmation \in BOOLEAN :
         /\ cliDeclined' = (ioOk /\ ~confirmation)
         /\ CliStep(IF ioOk THEN confirmed(confirmation) ELSE Err("IO"), "deploy")
    /\ UNCHANGED <<cliCmd, cliYes, cliFeeGiven, cliOut, cliExit>>

(* deploy::handle, lines 163-173: deployer.deploy(..).await?, the address is
   printed, Ok(()). *)
DeployCall ==
    /\ cliPc = "deploy"
    /\ UNCHANGED nonCliVars
    /\ \E ok \in BOOLEAN, address \in Addrs :
         /\ cliOut' = IF ok
                      THEN cliOut \o <<Event("deploy", 0), Event("print_address", address)>>
                      ELSE Append(cliOut, Event("deploy", 0))
         /\ cliResult' = IF ok THEN Ok("unit") ELSE Err("Deployer")
         /\ cliPc' = "returned"
    /\ UNCHANGED <<cliCmd, cliYes, cliFeeGiven, cliDeclined, cliExit>>

(* main, lines 16-21: the error is printed and exit(1), or exit(0). *)
MainExit ==
    /\ cliPc = "returned"
    /\ UNCHANGED nonCliVars
    /\ cliOut' = IF IsErr(cliResult) THEN Append(cliOut, Event("print_error", 0)) ELSE cliOut
    /\ cliExit' = <<exit_status(cliResult)>>
    /\ cliPc' = "exited"
    /\ UNCHANGED <<cliCmd, cliYes, cliFeeGiven, cliDeclined, cliResult>>

----------------------------------------------------------------------------
(* Part VIII: Collector (cli/src/templates/collector.rs)                   *)

(* The folders under the root are numbered 1 (the root) to n; parent[d] < d.
   desc[d] is what folder d holds under the name template.toml: nothing, a file
   that does not parse, or a descriptor.  ord is the order in which read_dir
   hands out the sub-folders, fileFirst whether it hands out the files of a
   folder before its sub-folders (the order of read_dir is not specified). *)
NoExtra == [some |-> FALSE, map |-> {}]
SomeExtra(map) == [some |-> TRUE, map |-> map]
NoDescriptor == [kind |-> "none", name |-> "", description |-> "", extra |-> NoExtra]
BadDescriptor == [kind |-> "bad", name |-> "", description |-> "", extra |-> NoExtra]
Descriptors ==
    {[kind |-> "file", name |-> "template1", description |-> "description1",
      extra |-> NoExtra],
     [kind |-> "file", name |-> "template2", description |-> "description2",
      extra |-> SomeExtra({})],
     [kind |-> "file", name |-> "template1", description |-> "description1",
      extra |-> SomeExtra({<<"templates_dir", "templates">>})]}
DirEntries == {NoDescriptor, BadDescriptor} \cup Descriptors

Permutations(S) ==
    {s \in [1..Cardinality(S) -> S] : \A i, j \in DOMAIN s : s[i] = s[j] => i = j}

TreesOf(n) ==
    {[n |-> n, parent |-> p, desc |-> d, ord |-> o, fileFirst |-> ff] :
        p \in {q \in [1..n -> 0..n] : \A i \in 1..n : q[i] < i /\ (i > 1 => q[i] >= 1)},
        d \in [1..n -> DirEntries],
        o \in Permutations(2..n),
        ff \in BOOLEAN}
Trees == UNION {TreesOf(n) : n \in 0..MaxDirs}
NoTree == [n |-> 0, parent |-> <<>>, desc |-> <<>>, ord |-> <<>>, fileFirst |-> FALSE]

CollectorInit ==
    /\ colPc = "new"
    /\ colTree = NoTree
    /\ colResult = NoResult

(* Variant of unwrap_or_default: the map is dropped. *)
unwrap_or_empty(extra) == {}

(* template_file.extra.unwrap_or_default() *)
unwrap_or_default(extra) == IF extra.some THEN extra.map ELSE {}

(* Template::new(path, template_id, name, description, extra); template_id, the
   folder's name in snake case, is left out. *)
NewTemplate(dir, file) ==
    [path |-> dir, name |-> file.name, description |-> file.description,
     extra |-> unwrap_or_default(file.extra)]

(* Lines 49-83: the entry template.toml of folder dir. *)
collect_descriptor(dir, t) ==
    IF t.desc[dir].kind = "none" THEN Ok(<<>>)
    ELSE IF t.desc[dir].kind = "bad" THEN Err("TomlDeserialize")
    ELSE Ok(<<NewTemplate(dir, t.desc[dir])>>)

(* `?` between two parts of the traversal, results pushed in that order. *)
Then(a, b) == IF IsErr(a) THEN a ELSE IF IsErr(b) THEN b ELSE Ok(a.value \o b.value)

(* Variant of collect_templates: sub-folders are not descended into. *)
collect_templates_flat(dir, t) ==
    IF dir > t.n THEN Ok(<<>>) ELSE collect_descriptor(dir, t)

(* collect_templates(dir, result), lines 43-88, and its loop over the
   sub-folders kids[i..]. *)
RECURSIVE collect_templates(_, _), collect_folders(_, _, _)
collect_templates(dir, t) ==
    IF dir > t.n THEN Ok(<<>>)
    ELSE LET IsKid(c) == t.parent[c] = dir
             folders == collect_folders(SelectSeq(t.ord, IsKid), 1, t)
             file == collect_descriptor(dir, t)
         IN  IF t.fileFirst THEN Then(file, folders) ELSE Then(folders, file)
collect_folders(kids, i, t) ==
    IF i > Len(kids) THEN Ok(<<>>)
    ELSE Then(collect_templates(kids[i], t), collect_folders(kids, i + 1, t))

(* The templates folder as it is found on disk. *)
GenerateTemplates ==
    /\ colPc = "new"
    /\ UNCHANGED nonCollectorVars
    /\ colTree' \in Trees
    /\ colPc' = "ready"
    /\ UNCHANGED colResult

(* Collector::collect, lines 34-39. *)
Collect ==
    /\ colPc = "ready"
    /\ UNCHANGED nonCollectorVars
    /\ colResult' = collect_templates(1, colTree)
    /\ colPc' = "collected"
    /\ UNCHANGED colTree

----------------------------------------------------------------------------
(* Part IX: GitRepository (cli/src/git/repository.rs) and                  *)
(* Cli::refresh_template_repository (cli/src/cli/command.rs:188-218)       *)

Branches == {"main", "dev"}

(* The local folder: absent, a folder that is no repository, or a repository
   whose HEAD is a branch, detached, or unborn (right after git init). *)
NoFolder == [exists |-> FALSE, repo |-> FALSE, head |-> "none"]
Disks == {NoFolder, [exists |-> TRUE, repo |-> FALSE, head |-> "none"]} \cup
         {[exists |-> TRUE, repo |-> TRUE, head |-> h] :
              h \in Branches \cup {"detached", "unborn"}}
Checkout(branch) == [exists |-> TRUE, repo |-> TRUE, head |-> branch]

NoCall == [call |-> "none", res |-> NoResult, ops |-> <<>>]

GitInit ==
    /\ gitRepository = "None"
    /\ gitDisk = NoFolder
    /\ gitRemote = Branches
    /\ gitLast = NoCall
    /\ gitSucceeded = FALSE
    /\ gitCalls = 0
    /\ rfPc = "idle"
    /\ rfBranch = "none"
    /\ rfExisted = FALSE
    /\ rfCurrent = "none"
    /\ rfLog = <<>>
    /\ rfResult = NoResult

(* What a method call comes to: its result, the folder afterwards, and the git2
   operations it performed. *)
Outcome(res, disk, ops) == [res |-> res, disk |-> disk, ops |-> ops]

RepositoryNotInitialized == Err("RepositoryNotInitialized")

(* GitRepository::repository, lines 99-105 *)
repository(repo) == IF repo = "None" THEN RepositoryNotInitialized ELSE Ok("repo")

(* Variant of assign_repository: a failed attempt clears the field. *)
assign_repository_cleared(old, res) == IF IsOk(res) THEN "Some" ELSE "None"

(* `self.repository = Some(..?)`: the field is written only on success. *)
assign_repository(old, res) == IF IsOk(res) THEN "Some" ELSE old

(* GitRepository::init, lines 37-40: Repository::init. *)
init(disk, ok) ==
    IF ~ok THEN Outcome(Err("Git2"), disk, <<"init">>)
    ELSE Outcome(Ok("unit"), IF disk.repo THEN disk ELSE Checkout("unborn"), <<"init">>)

(* GitRepository::load, lines 43-46: Repository::open. *)
load(disk, ok) ==
    IF ok /\ disk.repo THEN Outcome(Ok("unit"), disk, <<"open">>)
    ELSE Outcome(Err("Git2"), disk, <<"open">>)

(* GitRepository::clone_and_checkout, lines 49-58: the clone needs a folder that
   is not there yet and a remote that has the branch. *)
clone_and_checkout(disk, branch, remote, ok) ==
    IF ok /\ ~disk.exists /\ branch \in remote
    THEN Outcome(Ok("unit"), Checkout(branch), <<"clone">>)
    ELSE Outcome(Err("Git2"), disk, <<"clone">>)

(* GitRepository::current_branch_name, lines 108-120 *)
current_branch_name(repo, disk) ==
    IF IsErr(repository(repo)) THEN Outcome(repository(repo), disk, <<>>)
    ELSE IF ~disk.repo \/ disk.head = "unborn" THEN Outcome(Err("Git2"), disk, <<"head">>)
    ELSE IF disk.head = "detached" THEN Outcome(Err("RefIsNotBranch"), disk, <<"head">>)
    ELSE Outcome(Ok(disk.head), disk, <<"head">>)

(* GitRepository::pull_changes, lines 62-95; branch is "None" or a name.  failAt
   is where git2 fails: at the fetch, at the checkout, or nowhere. *)
pull_changes(repo, disk, branch, remote, failAt) ==
    IF IsErr(repository(repo)) THEN Outcome(repository(repo), disk, <<>>)
    ELSE LET current == IF branch # "None" THEN Outcome(Ok(branch), disk, <<>>)
                        ELSE current_branch_name(repo, disk)
         IN  IF IsErr(current.res) THEN current
             ELSE IF ~disk.repo \/ failAt = "fetch" \/ current.res.value \notin remote
                  THEN Outcome(Err("Git2"), disk, current.ops \o <<"find_remote", "fetch">>)
             ELSE Outcome(IF failAt = "checkout" THEN Err("Git2") ELSE Ok("unit"),
                          Checkout(current.res.value),
                          current.ops \o <<"find_remote", "fetch", "reference",
                                           "set_head", "checkout_head">>)

(* A method of GitRepository is called and returns. *)
Called(call, o) ==
    /\ gitLast' = [call |-> call, res |-> o.res, ops |-> o.ops]
    /\ gitDisk' = o.disk
    /\ gitCalls' = gitCalls + 1

Mutated(call, o) ==
    /\ Called(call, o)
    /\ gitRepository' = assign_repository(gitRepository, o.res)
    /\ gitSucceeded' = (gitSucceeded \/ IsOk(o.res))

CallInit ==
    /\ gitCalls < MaxGitCalls
    /\ UNCHANGED nonGitVars
    /\ \E ok \in BOOLEAN : Mutated("init", init(gitDisk, ok))
    /\ UNCHANGED <<gitRemote, rfPc, rfBranch, rfExisted, rfCurrent, rfLog, rfResult>>

CallLoad ==
    /\ gitCalls < MaxGitCalls
    /\ UNCHANGED nonGitVars
    /\ \E ok \in BOOLEAN : Mutated("load", load(gitDisk, ok))
    /\ UNCHANGED <<gitRemote, rfPc, rfBranch, rfExisted, rfCurrent, rfLog, rfResult>>

CallCloneAndCheckout ==
    /\ gitCalls < MaxGitCalls
    /\ UNCHANGED nonGitVars
    /\ \E ok \in BOOLEAN, branch \in Branches :
         Mutated("clone_and_checkout", clone_and_checkout(gitDisk, branch, gitRemote, ok))
    /\ UNCHANGED <<gitRemote, rfPc, rfBranch, rfExisted, rfCurrent, rfLog, rfResult>>

CallPullChanges ==
    /\ gitCalls < MaxGitCalls
    /\ UNCHANGED nonGitVars
    /\ \E branch \in Branches \cup {"None"}, failAt \in {"none", "fetch", "checkout"} :
         Called("pull_changes",
                pull_changes(gitRepository, gitDisk, branch, gitRemote, failAt))
    /\ UNCHANGED <<gitRepository, gitSucceeded, gitRemote, rfPc, rfBranch, rfExisted,
                   rfCurrent, rfLog, rfResult>>

CallCurrentBranchName ==
    /\ gitCalls < MaxGitCalls
    /\ UNCHANGED nonGitVars
    /\ Called("current_branch_name", current_branch_name(gitRepository, gitDisk))
    /\ UNCHANGED <<gitRepository, gitSucceeded, gitRemote, rfPc, rfBranch, rfExisted,
                   rfCurrent, rfLog, rfResult>>

(* `?` in refresh_template_repository. *)
RefreshStep(r, next) ==
    /\ rfPc' = IF IsErr(r) THEN "done" ELSE next
    /\ rfResult' = IF IsErr(r) THEN r ELSE IF next = "done" THEN Ok("repo") ELSE rfResult

(* Variant of pull_branch: the current branch is always the one pulled. *)
pull_branch_current(current, configured) == "None"

(* Lines 208-212: pull onto the configured branch when the current one differs. *)
pull_branch(current, configured) == IF current # configured THEN configured ELSE "None"

(* refresh_template_repository is called: the folder as it is on disk, the
   configured branch, the branches the remote has. *)
RefreshStart ==
    /\ rfPc = "idle"
    /\ UNCHANGED nonGitVars
    /\ gitDisk' \in Disks
    /\ rfBranch' \in Branches
    /\ gitRemote' \in SUBSET Branches
    /\ rfPc' = "prepare"
    /\ UNCHANGED <<gitRepository, gitLast, gitSucceeded, gitCalls, rfExisted, rfCurrent,
                   rfLog, rfResult>>

(* Lines 189-205: create_dir, the folder path, GitRepository::new, dir_exists. *)
RefreshPrepare ==
    /\ rfPc = "prepare"
    /\ UNCHANGED nonGitVars
    /\ \E ok \in BOOLEAN :
         RefreshStep(IF ok THEN Ok("path") ELSE Err("IO"),
                     IF gitDisk.exists THEN "load" ELSE "clone")
    /\ rfExisted' = gitDisk.exists
    /\ UNCHANGED <<gitRepository, gitDisk, gitRemote, gitLast, gitSucceeded, gitCalls,
                   rfBranch, rfCurrent, rfLog>>

(* Line 206: repo.load()? *)
RefreshLoad ==
    /\ rfPc = "load"
    /\ UNCHANGED nonGitVars
    /\ \E ok \in BOOLEAN :
         LET o == load(gitDisk, ok)
         IN  /\ Mutated("load", o)
             /\ RefreshStep(o.res, "current_branch")
    /\ rfLog' = Append(rfLog, "load")
    /\ UNCHANGED <<gitRemote, rfBranch, rfExisted, rfCurrent>>

(* Line 207: repo.current_branch_name()? *)
RefreshCurrentBranch ==
    /\ rfPc = "current_branch"
    /\ UNCHANGED nonGitVars
    /\ LET o == current_branch_name(gitRepository, gitDisk)
       IN  /\ Called("current_branch_name", o)
           /\ rfCurrent' = IF IsOk(o.res) THEN o.res.value ELSE rfCurrent
           /\ RefreshStep(o.res, "pull")
    /\ rfLog' = Append(rfLog, "current_branch_name")
    /\ UNCHANGED <<gitRepository, gitSucceeded, gitRemote, rfBranch, rfExisted>>

(* Lines 208-212: repo.pull_changes(..)? *)
RefreshPull ==
    /\ rfPc = "pull"
    /\ UNCHANGED nonGitVars
    /\ \E failAt \in {"none", "fetch", "checkout"} :
         LET o == pull_changes(gitRepository, gitDisk, pull_branch(rfCurrent, rfBranch),
                               gitRemote, failAt)
         IN  /\ Called("pull_changes", o)
             /\ RefreshStep(o.res, "done")
    /\ rfLog' = Append(rfLog, "pull_changes")
    /\ UNCHANGED <<gitRepository, gitSucceeded, gitRemote, rfBranch, rfExisted, rfCurrent>>

(* Line 214: repo.clone_and_checkout(url, branch)? *)
RefreshClone ==
    /\ rfPc = "clone"
    /\ UNCHANGED nonGitVars
    /\ \E ok \in BOOLEAN :
         LET o == clone_and_checkout(gitDisk, rfBranch, gitRemote, ok)
         IN  /\ Mutated("clone_and_checkout", o)
             /\ RefreshStep(o.res, "done")
    /\ rfLog' = Append(rfLog, "clone_and_checkout")
    /\ UNCHANGED <<gitRemote, rfBranch, rfExisted, rfCurrent>>

----------------------------------------------------------------------------
(* Part X: Config::override_data (src/crates/cli/src/cli/config.rs) *)

(* Strings are numbered; 0 and 1 number the strings of Config::default(). *)
Values == 0..MaxValue

(* Lines 11-19. *)
VALID_OVERRIDE_KEYS ==
    {"project_template_repository.url", "project_template_repository.branch",
     "project_template_repository.folder", "wasm_template_repository.url",
     "wasm_template_repository.branch", "wasm_template_repository.folder",
     "default_account"}

(* Keys a caller may pass: the valid ones, a key of no field and a field name
   without its repository. *)
Keys == VALID_OVERRIDE_KEYS \cup {"default-account", "url"}

NoAccount == [some |-> FALSE]
SomeAccount(a) == [some |-> TRUE, account |-> a]

(* Lines 39-55: url and branch are the same strings for both repositories,
   the folders differ. *)
DefaultConfig ==
    [project_template_repository |-> [url |-> 0, branch |-> 0, folder |-> 0],
     wasm_template_repository    |-> [url |-> 0, branch |-> 0, folder |-> 1],
     default_account             |-> NoAccount]

NoOverride == [key |-> "none"]

ConfigInit ==
    /\ config = DefaultConfig
    /\ cfgLast = NoOverride

(* Line 76-78. *)
is_override_key_valid(key) == key \in VALID_OVERRIDE_KEYS

(* value.parse() of line 105: ComponentAddressOrName::from_str, which accepts
   the string or rejects it. *)
parse(value, accepted) == IF accepted THEN Ok(value) ELSE Err("Parse")

(* Variant of override_data: the account is cleared before the value is parsed. *)
override_data_cleared(self, key, value, accepted) ==
    IF ~is_override_key_valid(key)
    THEN [res |-> Err("InvalidKey"), config |-> self]
    ELSE IF key = "default_account"
    THEN LET parsed == parse(value, accepted)
         IN  IF IsErr(parsed)
             THEN [res |-> parsed, config |-> [self EXCEPT !.default_account = NoAccount]]
             ELSE [res    |-> Ok("self"),
                   config |-> [self EXCEPT !.default_account = SomeAccount(parsed.value)]]
    ELSE [res |-> Ok("self"), config |-> self]

(* Lines 80-111: the value the call returns and the Config it leaves. *)
override_data(self, key, value, accepted) ==
    IF ~is_override_key_valid(key)
    THEN [res |-> Err("InvalidKey"), config |-> self]
    ELSE
    LET set ==
          CASE key = "project_template_repository.url" ->
                 Ok([self EXCEPT !.project_template_repository.url = value])
            [] key = "project_template_repository.branch" ->
                 Ok([self EXCEPT !.project_template_repository.branch = value])
            [] key = "project_template_repository.folder" ->
                 Ok([self EXCEPT !.project_template_repository.folder = value])
            [] key = "wasm_template_repository.url" ->
                 Ok([self EXCEPT !.wasm_template_repository.url = value])
            [] key = "wasm_template_repository.branch" ->
                 Ok([self EXCEPT !.wasm_template_repository.branch = value])
            [] key = "wasm_template_repository.folder" ->
                 Ok([self EXCEPT !.wasm_template_repository.folder = value])
            [] key = "default_account" ->
                 LET parsed == parse(value, accepted)
                 IN  IF IsErr(parsed)
                     THEN parsed
                     ELSE Ok([self EXCEPT !.default_account = SomeAccount(parsed.value)])
            [] OTHER -> Ok(self)
    IN  IF IsErr(set)
        THEN [res |-> set, config |-> self]
        ELSE [res |-> Ok("self"), config |-> set.value]

(* config.override_data(key, value) with any key and value. *)
OverrideData ==
    /\ UNCHANGED nonConfigVars
    /\ \E key \in Keys, value \in Values, accepted \in BOOLEAN :
         LET o == override_data(config, key, value, accepted)
         IN  /\ config' = o.config
             /\ cfgLast' = [key |-> key, value |-> value, accepted |-> accepted,
                            before |-> config, res |-> o.res]

----------------------------------------------------------------------------
(* Part XI: add_members_to_workspace (src/crates/cli/src/cli/commands/add.rs) *)

(* Project paths, numbered. *)
Paths == 1..MaxPath

(* Member lists of a workspace: add_members_to_workspace never writes a path
   that is already a member, so the lists hold no path twice. *)
MemberLists ==
    {s \in UNION {[1..n -> Paths] : n \in 0..MaxPath} :
        \A i, j \in DOMAIN s : s[i] = s[j] => i = j}

NoWorkspace == [some |-> FALSE]
SomeWorkspace(members, resolver) ==
    [some |-> TRUE, members |-> members, resolver |-> resolver]

(* A Cargo.toml that Manifest::from_path cannot read or parse. *)
Unreadable == [readable |-> FALSE]
Manifest(workspace) == [readable |-> TRUE, workspace |-> workspace]

(* The Cargo.toml files the command may find at the git root. *)
Manifests ==
    {Unreadable, Manifest(NoWorkspace)}
        \cup {Manifest(SomeWorkspace(ms, r)) : ms \in MemberLists, r \in {"None", "V2"}}

NoAdd == [path |-> 0]

WorkspaceInit ==
    /\ cargoToml = Manifest(NoWorkspace)
    /\ addPrev = NoAdd
    /\ addLast = NoAdd
    /\ addCalls = 0

(* Line 165: workspace.members.contains(&project_path). *)
contains(members, project_path) == \E i \in DOMAIN members : members[i] = project_path

(* Variant of add_members_to_workspace: the path is pushed without looking
   for it among the members. *)
add_members_to_workspace_push(file, project_path, failAt, left) ==
    IF failAt = "read" \/ ~file.readable
    THEN [res |-> Err("Manifest"), file |-> file]
    ELSE LET workspace ==
               IF file.workspace.some
               THEN [file.workspace EXCEPT !.members = Append(@, project_path)]
               ELSE SomeWorkspace(<<project_path>>, "V2")
         IN  [res |-> Ok("unit"), file |-> Manifest(workspace)]

(* Lines 158-194.  failAt names the step that fails, left the file a failed
   fs::write leaves behind: fs::write truncates the file before it writes. *)
add_members_to_workspace(file, project_path, failAt, left) ==
    IF failAt = "read" \/ ~file.readable
    THEN [res |-> Err("Manifest"), file |-> file]
    ELSE
    LET workspace ==
          IF file.workspace.some
          THEN IF contains(file.workspace.members, project_path)
               THEN file.workspace
               ELSE [file.workspace EXCEPT !.members = Append(@, project_path)]
          ELSE SomeWorkspace(<<project_path>>, "V2")
    IN  CASE failAt = "to_string" -> [res |-> Err("Toml"), file |-> file]
          [] failAt = "write"     -> [res |-> Err("IO"), file |-> left]
          [] OTHER                -> [res |-> Ok("unit"), file |-> Manifest(workspace)]

(* The Cargo.toml as the command finds it before its first call. *)
WriteManifest ==
    /\ addCalls = 0
    /\ UNCHANGED nonWorkspaceVars
    /\ cargoToml' \in Manifests
    /\ UNCHANGED <<addPrev, addLast, addCalls>>

(* add_members_to_workspace(&workspace_toml_file, project_rel_path).await *)
AddMembers ==
    /\ addCalls < MaxAdds
    /\ UNCHANGED nonWorkspaceVars
    /\ \E project_path \in Paths, failAt \in {"none", "read", "to_string", "write"},
          left \in {cargoToml, Unreadable, Manifest(NoWorkspace)} :
         LET o == add_members_to_workspace(cargoToml, project_path, failAt, left)
         IN  /\ cargoToml' = o.file
             /\ addLast' = [path |-> project_path, failAt |-> failAt,
                            before |-> cargoToml, res |-> o.res]
    /\ addPrev' = addLast
    /\ addCalls' = addCalls + 1

----------------------------------------------------------------------------
(* Specifications *)

Init == DeployInit /\ PublisherInit /\ SessionInit /\ ConcInit /\ LoaderInit /\ PipelineInit /\ CliInit /\ CollectorInit /\ GitInit /\ ConfigInit /\ WorkspaceInit

(* One deploy() invocation of TemplateDeployer. *)
Next ==
    \/ \E p \in DeployParams : Start(p)
    \/ DeployRequest
    \/ CheckRequest
    \/ WalletBalance
    \/ WalletBalanceResponse
    \/ RegistrationFee
    \/ RegistrationFeeResponse
    \/ RegisterTemplate
    \/ RegisterTemplateResponse

Spec == Init /\ [][Next]_vars

(* Fee estimates: registration_fee() called up to MaxCalls times. *)
FeeNext ==
    \/ \E p \in DeployParams : FeeStart(p)
    \/ FeeRequest
    \/ FeeQuery
    \/ FeeResponse

FeeSpec == Init /\ [][FeeNext]_vars

(* One run of the Publisher from the publish call to its result. *)
PublisherNext ==
    \/ PublishTemplate
    \/ WaitTransactionResult
    \/ HandleOutcome
    \/ ExtractTemplateAddress

PublisherSpec == Init /\ [][PublisherNext]_vars

(* One wallet_daemon_client() call and the use of the client it returns. *)
SessionNext ==
    \/ Connect
    \/ AuthRequest
    \/ AuthAccept
    \/ SessionCall

SessionSpec == Init /\ [][SessionNext]_vars

(* Two deploy() calls of one TemplateDeployer, interleaved at every await. *)
ConcNext ==
    \/ \E t \in Tasks, p \in DeployParams : TaskStart(t, p)
    \/ \E t \in Tasks : TaskDeployRequest(t)
    \/ \E t \in Tasks : TaskCheckRequest(t)
    \/ \E t \in Tasks : TaskWalletBalance(t)
    \/ \E t \in Tasks : TaskRegistrationFee(t)
    \/ \E t \in Tasks : TaskRegisterTemplate(t)

ConcSpec == Init /\ [][ConcNext]_vars

(* Up to MaxLoads loads of either variant, the file changing in between. *)
LoaderNext ==
    \/ WriteFile
    \/ LoadPath
    \/ LoadBinary

LoaderSpec == Init /\ [][LoaderNext]_vars

(* One run of the whole pipeline. *)
PipelineNext ==
    \/ PipelineLoad
    \/ PipelineEstimate
    \/ PipelineBalance
    \/ PipelinePublish
    \/ PipelineWait

PipelineSpec == Init /\ [][PipelineNext]_vars

(* One run of the CLI process. *)
CliNext ==
    \/ CliParse
    \/ CliInitConfig
    \/ CliRefresh
    \/ CliOtherCommand
    \/ DeploySetup
    \/ DeployConfirmCost
    \/ DeployFeePerGram
    \/ DeployUpload
    \/ DeployEstimate
    \/ DeployConfirmFee
    \/ DeployCall
    \/ MainExit

CliSpec == Init /\ [][CliNext]_vars

(* One Collector::collect over a templates folder. *)
CollectorNext ==
    \/ GenerateTemplates
    \/ Collect

CollectorSpec == Init /\ [][CollectorNext]_vars

(* Up to MaxGitCalls method calls on one GitRepository, in any order. *)
GitNext ==
    \/ CallInit
    \/ CallLoad
    \/ CallCloneAndCheckout
    \/ CallPullChanges
    \/ CallCurrentBranchName

GitSpec == Init /\ [][GitNext]_vars

(* One refresh_template_repository call. *)
RefreshNext ==
    \/ RefreshStart
    \/ RefreshPrepare
    \/ RefreshLoad
    \/ RefreshCurrentBranch
    \/ RefreshPull
    \/ RefreshClone

RefreshSpec == Init /\ [][RefreshNext]_vars

(* Overrides applied to one Config, one after the other. *)
ConfigNext ==
    \/ OverrideData

ConfigSpec == Init /\ [][ConfigNext]_vars

(* add_members_to_workspace called again and again on one Cargo.toml. *)
WorkspaceNext ==
    \/ WriteManifest
    \/ AddMembers

WorkspaceSpec == Init /\ [][WorkspaceNext]_vars

----------------------------------------------------------------------------
(* Claims about TemplateDeployer, checked under Spec *)

PublishIssued == "create_template_registration" \in Range(rpcLog)

(* C1: in every execution of deploy, the registration RPC
   (create_template_registration) is issued, and register_template entered,
   only after check_balance_to_deploy has returned Ok in that execution. *)
C1_PublishOnlyAfterBalanceCheck ==
    (pc = "register" \/ PublishIssued) => IsOk(balance_check)

C1_Witness == PublishIssued /\ IsOk(balance_check) /\ pc = "done"

(* C2: deploy returns Ok(template address) only if the transaction was fully
   accepted with a template-creation entry in its diff; for every other outcome
   (timed out, missing result, rejected, partially accepted, accepted without a
   template entry) it returns an error and no address. *)
C2_OkOnlyOnAcceptedTemplate ==
    (pc = "done" /\ IsOk(result)) => txOutcome = "Accepted"

(* C3: once fee f and balance b are both known, the balance check fails with
   InsufficientBalance if and only if f > b, and it succeeds when f = b. *)
C3_BalanceCheckFailsIffFeeExceeds ==
    fee_response.received =>
        /\ IsErrKind(balance_check, "InsufficientBalance") <=> fee > wallet_balance
        /\ IsOk(balance_check) <=> fee <= wallet_balance

C3_Witness ==
    /\ fee_response.received
    /\ fee = wallet_balance
    /\ fee > 0
    /\ IsOk(balance_check)

(* C4: when the estimated fee exceeds the queried balance, deploy fails with
   InsufficientBalance whose current field is the queried balance and whose fee
   field is the estimated fee, and no registration RPC is issued. *)
C4_InsufficientBalanceReported ==
    (fee_response.received /\ fee > wallet_balance) =>
        /\ pc = "done"
        /\ IsErrKind(result, "InsufficientBalance")
        /\ result.current = wallet_balance
        /\ result.fee = fee
        /\ ~PublishIssued

C4_Witness ==
    /\ fee_response.received
    /\ wallet_balance = 1
    /\ fee = 2
    /\ pc = "done"
    /\ IsErrKind(result, "InsufficientBalance")

(* C10: if the fee-estimate response carries no fee figure, fee estimation fails
   with InvalidResponse and deploy stops there; the fee is never defaulted and the
   balance check is never run against a defaulted fee. *)
C10_MissingFeeIsInvalidResponse ==
    (fee_response.received /\ ~fee_response.present) =>
        /\ pc = "done"
        /\ IsErrKind(result, "InvalidResponse")

Issued(rpc) == rpc \in Range(rpcLog)
IndexOf(rpc) == IF Issued(rpc) THEN CHOOSE i \in DOMAIN rpcLog : rpcLog[i] = rpc ELSE 0
Before(a, b) == Issued(a) /\ IndexOf(a) < IndexOf(b)

(* C12 as stated: the stages run Loader, Fee Estimator, Balance Guard, Publisher;
   the fee estimate is obtained before the account balance is queried, and the
   comparison uses that estimate. *)
C12_FeeEstimateBeforeBalanceQuery ==
    /\ rpcLog # <<>> => register_request # 0
    /\ Issued("get_balance") => Before("get_template_registration_fee", "get_balance")
    /\ PublishIssued => Before("get_balance", "create_template_registration")
    /\ fee_response.received => fee = fee_response.fee

(* C13: no stage retries: every wallet RPC is issued at most once in a deploy,
   an error of any stage is what deploy returns, and once deploy has returned
   nothing more is issued. *)
C13_NoRetry ==
    /\ \A i, j \in DOMAIN rpcLog : rpcLog[i] = rpcLog[j] => i = j
    /\ IsErr(balance_check) => result = balance_check
    /\ IsErr(result) => pc = "done"
    /\ pc = "done" => ~ENABLED Next

C13_Witness ==
    /\ pc = "done"
    /\ IsErrKind(result, "Grpc")
    /\ rpcLog = <<"get_balance">>

(* C14: once the registration RPC has been sent and accepted, the client issues
   exactly one more RPC in that deployment, a wait-for-result request, and
   nothing else. *)
C14_OneWaitAfterPublish ==
    (pc = "done" /\ txOutcome # "none") =>
        /\ Len(rpcLog) = IndexOf("create_template_registration") + 1
        /\ rpcLog[Len(rpcLog)] = "wait_transaction_result"

(* C15: every RPC-issuing operation makes a client of its own and drops it when
   it returns: no two RPCs go out on the same client, an RPC in flight uses the
   client made last, and no client is held between operations. *)
C15_FreshClientPerOperation ==
    /\ Len(rpcClients) = Len(rpcLog)
    /\ \A i, j \in DOMAIN rpcClients : rpcClients[i] = rpcClients[j] => i = j
    /\ \A m \in inflight : m.client = rpcClients[Len(rpcClients)] /\ m.client = clients
    /\ pc \notin {"balance_await", "fee_await", "register_await"} => inflight = {}

C15_Witness ==
    /\ pc = "done"
    /\ rpcClients = <<1, 2, 3>>
    /\ inflight = {}

(* C17: within one deployment at most one RPC is in flight at any time. *)
C17_OneRpcInFlight == Cardinality(inflight) <= 1

C17_Witness ==
    /\ Len(rpcLog) = 3
    /\ inflight = {[rpc |-> "create_template_registration", client |-> 3]}

(* C19: a malformed module fails validation with InvalidTemplate, and validation
   comes before any wallet RPC: when it fails, deploy returns that error and no
   fee, balance or registration RPC is issued. *)
C19_MalformedModuleStopsBeforeRpc ==
    /\ malformed =>
           /\ pc = "done"
           /\ IsErrKind(result, "InvalidTemplate")
           /\ rpcLog = <<>>
    /\ (params.kind = "Binary" /\ rpcLog # <<>>) => validations = 2 /\ uploads = 2

C19_Witness ==
    /\ malformed
    /\ validations = 2
    /\ pc = "done"
    /\ IsErrKind(result, "InvalidTemplate")

(* C25: one deploy invocation validates the template binary at most once and
   uploads it at most once, whichever DeployParams variant it is given. *)
C25_ValidatedAndUploadedAtMostOnce ==
    /\ validations <= 1
    /\ uploads <= 1

(* C11: fee estimation deploys nothing: across any sequence of registration_fee
   calls the registration RPC is never issued and no transaction is submitted;
   the only RPC sent to the wallet is the fee query. *)
C11_FeeEstimateDeploysNothing ==
    /\ \A i \in DOMAIN rpcLog : rpcLog[i] = "get_template_registration_fee"
    /\ \A m \in inflight : m.rpc = "get_template_registration_fee"
    /\ txOutcome = "none"

C11_Witness ==
    /\ calls = 2
    /\ Len(rpcLog) = 2
    /\ pc = "done"
    /\ IsOk(result)

----------------------------------------------------------------------------
(* Claims about the Publisher's outcome handling, checked under PublisherSpec *)

Responded == waitResp # NoResponse
HasTemplate(created) == \E i \in DOMAIN created : created[i].kind = "template"

(* C5: a wait response with timed_out = true yields WaitForTransactionTimeout
   carrying the transaction id, whatever else the response contains; never
   InvalidTransaction, and extraction is never attempted. *)
C5_TimedOutIsTimeout ==
    (Responded /\ waitResp.timed_out) =>
        /\ pubPc # "extract"
        /\ ~extracted
        /\ pubPc = "done" => pubResult = WaitForTransactionTimeout(txId)

C5_Witness ==
    /\ pubPc = "done"
    /\ waitResp.timed_out
    /\ waitResp.result.variant = "Reject"
    /\ pubResult = WaitForTransactionTimeout(txId)

(* C6: a finalized result Reject(reason) or AcceptFeeRejectRest(_, reason) yields
   InvalidTransaction with the transaction id and that reason; no address is
   reported and extraction is not entered. *)
C6_RejectionIsInvalidTransaction ==
    (/\ Responded
     /\ ~waitResp.timed_out
     /\ waitResp.result.variant \in {"Reject", "AcceptFeeRejectRest"}) =>
        /\ pubPc # "extract"
        /\ ~extracted
        /\ pubPc = "done" =>
               pubResult = InvalidTransaction(txId, waitResp.result.reason)

C6_Witness ==
    /\ pubPc = "done"
    /\ ~waitResp.timed_out
    /\ waitResp.result.variant = "AcceptFeeRejectRest"
    /\ HasTemplate(waitResp.result.created)
    /\ pubResult = InvalidTransaction(txId, waitResp.result.reason)

(* C7: a finalized Accept(diff) whose created entries hold no template-kind entry
   yields MissingPublishedTemplate, never an address. *)
C7_AcceptWithoutTemplateFails ==
    (/\ pubPc = "done"
     /\ Responded
     /\ ~waitResp.timed_out
     /\ waitResp.result.variant = "Accept"
     /\ ~HasTemplate(waitResp.result.created)) =>
        pubResult = MissingPublishedTemplate

C7_Witness ==
    /\ pubPc = "done"
    /\ extracted
    /\ waitResp.result.variant = "Accept"
    /\ Len(waitResp.result.created) = 2
    /\ ~HasTemplate(waitResp.result.created)
    /\ pubResult = MissingPublishedTemplate

(* C8: a wait response that is not timed out and carries no result payload yields
   MissingTransactionResult and no address. *)
C8_MissingPayloadFails ==
    (/\ pubPc = "done"
     /\ Responded
     /\ ~waitResp.timed_out
     /\ waitResp.result.variant = "None") =>
        pubResult = MissingTransactionResult(txId)

C8_Witness ==
    /\ pubPc = "done"
    /\ Responded
    /\ ~waitResp.timed_out
    /\ waitResp.result.variant = "None"
    /\ pubResult = MissingTransactionResult(txId)

(* C9: extraction returns the address of the first template-kind entry of the
   created list in its returned order: entries of other kinds before it are
   skipped, and of several template entries the earliest is returned. *)
C9_FirstTemplateEntryReturned ==
    (pubPc = "done" /\ extracted /\ HasTemplate(waitResp.result.created)) =>
        \E i \in DOMAIN waitResp.result.created :
            /\ waitResp.result.created[i].kind = "template"
            /\ \A j \in 1..(i - 1) : waitResp.result.created[j].kind # "template"
            /\ pubResult = Ok(waitResp.result.created[i].addr)

C9_Witness ==
    /\ pubPc = "done"
    /\ extracted
    /\ Len(waitResp.result.created) = 3
    /\ waitResp.result.created[1].kind = "component"
    /\ waitResp.result.created[2].kind = "template"
    /\ waitResp.result.created[3].kind = "template"
    /\ waitResp.result.created[2].addr # waitResp.result.created[3].addr
    /\ pubResult = Ok(waitResp.result.created[2].addr)


----------------------------------------------------------------------------
(* Claims about wallet_daemon_client, checked under SessionSpec *)

(* C16: session establishment sends auth_request (permission Admin, no expiry)
   and then auth_accept (with the auth token returned, under the name
   "default"), in that order; the bearer token is set only after auth_accept
   has succeeded, every RPC made afterwards on that client carries it, and when
   either step fails no session is returned and no further RPC is made. *)
C16_HandshakeThenToken ==
    /\ Len(sessLog) >= 1 =>
           /\ sessLog[1].rpc = "auth_request"
           /\ sessLog[1].body = [permissions |-> <<"Admin">>, duration |-> "None"]
    /\ Len(sessLog) >= 2 =>
           /\ sessLog[2].rpc = "auth_accept"
           /\ sessLog[2].body = [auth_token |-> sessChallenge, name |-> "default"]
           /\ sessChallenge \in Tokens
    /\ sessClient.token # NoToken =>
           /\ Len(sessLog) >= 2
           /\ sessResult = Ok(sessClient)
    /\ IsOk(sessResult) => sessResult.value = sessClient /\ sessClient.token \in Tokens
    /\ \A i \in DOMAIN sessLog : i >= 3 =>
           /\ sessLog[i].rpc \notin {"auth_request", "auth_accept"}
           /\ IsOk(sessResult)
           /\ sessLog[i].bearer = sessResult.value.token
    /\ IsErr(sessResult) =>
           /\ sessPc = "failed"
           /\ sessClient.token = NoToken
           /\ Len(sessLog) <= 2
           /\ ~ENABLED SessionNext

C16_Witness ==
    /\ sessPc = "returned"
    /\ sessChallenge = 2
    /\ sessResult = Ok([connected |-> TRUE, token |-> 3])
    /\ Len(sessLog) = 4
    /\ sessLog[4].bearer = 3

----------------------------------------------------------------------------
(* Claims about concurrent deployments, checked under ConcSpec *)

(* C18: deployments running concurrently share no mutable client-side state:
   under every interleaving each deployment returns what it returns when run
   alone against the same answers, every RPC of a deployment goes out on a
   client of its own, and the requests it sends are the ones it built. *)
C18_ConcurrentDeploymentsIndependent ==
    /\ \A t \in Tasks : cPc[t] = "done" => cResult[t] = deploy_alone(seen[t])
    /\ \A t \in Tasks : cPc[t] # "done" => cResult[t] = NoResult
    /\ \A e \in cRpcs :
           /\ e.owner = e.task
           /\ e.rpc = "get_template_registration_fee" =>
                  e.request = seen[e.task].req2.value
           /\ e.rpc = "create_template_registration" =>
                  e.request = seen[e.task].req1.value

C18_Witness ==
    /\ cPc["a"] = "done"
    /\ IsOk(cResult["a"])
    /\ cPc["b"] = "register"
    /\ frames["b"].params # frames["a"].params
    /\ frames["b"].wallet_balance # frames["a"].wallet_balance
    /\ frames["b"].fee # frames["a"].fee

----------------------------------------------------------------------------
(* Claims about the Loader's content hash, checked under LoaderSpec *)

(* C20: loading the same bytes via the Path variant and via the Binary variant
   yields the same content hash: two loads of equal bytes have equal hashes,
   whichever variant each came from and however many loads were made before. *)
C20_SameBytesSameHash ==
    \A x, y \in loads : x.bytes = y.bytes => x.hash = y.hash

C20_Witness ==
    /\ nLoads = 2
    /\ \E x, y \in loads :
        /\ x.source = "Path"
        /\ y.source = "Binary"
        /\ x.bytes = y.bytes
        /\ Len(x.bytes) = 2

----------------------------------------------------------------------------
(* Claims about the pipeline end to end, checked under PipelineSpec *)

TemplateEntries(created) == {i \in DOMAIN created : created[i].kind = "template"}

(* C22: with a valid binary, a fee that does not exceed the balance, a publish
   that returns a transaction id and a wait that returns Accept with one
   created template entry, the deployment proceeds past the balance check and
   the pipeline returns exactly that entry's address. *)
C22_HappyPathReturnsEntryAddress ==
    /\ plCovered => ~IsErrKind(plResult, "InsufficientBalance")
    /\ (/\ plPc = "done"
        /\ plValid
        /\ plCovered
        /\ plTx \in TxIds
        /\ ~plResp.timed_out
        /\ plResp.result.variant = "Accept"
        /\ Cardinality(TemplateEntries(plResp.result.created)) = 1)
       => \E i \in TemplateEntries(plResp.result.created) :
              plResult = Ok(plResp.result.created[i].addr)

C22_Witness ==
    /\ plPc = "done"
    /\ plValid
    /\ plCovered
    /\ plFee = Ok(1)
    /\ plTx = 1
    /\ plResp = [timed_out |-> FALSE,
                 result |-> [variant |-> "Accept", reason |-> "",
                             created |-> <<[kind |-> "component", addr |-> 1],
                                           [kind |-> "template", addr |-> 2]>>]]
    /\ plResult = Ok(2)

----------------------------------------------------------------------------
(* Claims about the CLI process, checked under CliSpec *)

LastEvent == IF cliOut = <<>> THEN "none" ELSE cliOut[Len(cliOut)].ev

(* C23: the process exits with status zero if and only if the command
   succeeded, for deploy after the deployed address was printed; on a failure
   it prints the error and exits with a non-zero status. *)
C23_ExitZeroIffSucceeded ==
    /\ cliPc # "exited" => cliExit = <<>>
    /\ cliPc = "exited" =>
           /\ Len(cliExit) = 1
           /\ cliExit = <<0>> <=> IsOk(cliResult)
           /\ (cliExit = <<0>> /\ cliCmd = "deploy") => LastEvent = "print_address"
           /\ cliExit # <<0>> => LastEvent \in {"print_error", "panic"}
    /\ Events("print_address") # {} => IsOk(cliResult)

C23_Witness ==
    /\ cliPc = "exited"
    /\ cliCmd = "deploy"
    /\ cliExit = <<0>>
    /\ cliOut[Len(cliOut)] = [ev |-> "print_address", arg |-> 2]

(* C26: in the deploy command run without --yes, when the user declines either
   confirmation the command returns the "Deployment aborted" error and
   deployer.deploy is never called; a fee confirmation that is shown comes
   before the deploy call, and without --yes deploy is called only after both
   prompts were shown. *)
C26_DeclinedNeverDeploys ==
    /\ cliDeclined =>
           /\ ~cliYes
           /\ cliResult = Err("Deployment aborted")
           /\ Events("deploy") = {}
    /\ \A i \in Events("prompt_fee"), j \in Events("deploy") : i < j
    /\ (~cliYes /\ Events("deploy") # {}) =>
           /\ Events("prompt_cost") # {}
           /\ Events("prompt_fee") # {}

C26_Witness ==
    /\ cliPc = "exited"
    /\ cliDeclined
    /\ Events("prompt_fee") # {}
    /\ Events("upload_template") # {}
    /\ cliExit = <<1>>

----------------------------------------------------------------------------
(* Claims about Collector, checked under CollectorSpec *)

DescriptorDirs == {d \in 1..colTree.n : colTree.desc[d].kind # "none"}

(* C24: collect returns exactly one Template for each template.toml found
   anywhere under the root folder, carrying that file's name, description and
   extra map (empty when the file has none); the number of results equals the
   number of descriptor files. *)
C24_OneTemplatePerDescriptor ==
    (colPc = "collected" /\ IsOk(colResult)) =>
        /\ Len(colResult.value) = Cardinality(DescriptorDirs)
        /\ \A d \in DescriptorDirs :
               LET found == {i \in DOMAIN colResult.value : colResult.value[i].path = d}
               IN  /\ Cardinality(found) = 1
                   /\ \A i \in found :
                          /\ colResult.value[i].name = colTree.desc[d].name
                          /\ colResult.value[i].description = colTree.desc[d].description
                          /\ colResult.value[i].extra =
                                 (IF colTree.desc[d].extra.some
                                  THEN colTree.desc[d].extra.map ELSE {})

C24_Witness ==
    /\ colPc = "collected"
    /\ IsOk(colResult)
    /\ Len(colResult.value) = 3
    /\ colTree.parent = <<0, 1, 2>>
    /\ \E i \in DOMAIN colResult.value : colResult.value[i].extra # {}
    /\ \E d \in DescriptorDirs : ~colTree.desc[d].extra.some

----------------------------------------------------------------------------
(* Claims about GitRepository, checked under GitSpec *)

(* C27: while none of init, load and clone_and_checkout has succeeded on the
   instance (failed attempts included), pull_changes and current_branch_name
   return RepositoryNotInitialized and perform no git operation; once one of
   the three has succeeded, the repository is there for every later call. *)
C27_NotInitializedUntilSuccess ==
    /\ gitSucceeded <=> gitRepository = "Some"
    /\ (~gitSucceeded /\ gitLast.call \in {"pull_changes", "current_branch_name"}) =>
           /\ gitLast.res = RepositoryNotInitialized
           /\ gitLast.ops = <<>>
    /\ gitSucceeded => gitLast.res # RepositoryNotInitialized
    /\ (gitSucceeded /\ gitLast.call \in {"pull_changes", "current_branch_name"}) =>
           gitLast.ops # <<>>

C27_Witness ==
    /\ gitCalls = 3
    /\ gitSucceeded
    /\ gitLast.call = "pull_changes"
    /\ IsOk(gitLast.res)
    /\ gitDisk.head = "dev"

----------------------------------------------------------------------------
(* Claims about refresh_template_repository, checked under RefreshSpec *)

(* C28: after refresh_template_repository succeeds the local repository is
   checked out on the configured branch; a folder that exists is loaded and
   pulled, a folder that is missing is cloned at the configured branch; clone
   is never attempted on an existing folder, load and pull never on a missing
   one. *)
C28_RefreshedOnConfiguredBranch ==
    /\ (rfPc = "done" /\ IsOk(rfResult)) =>
           /\ gitDisk = Checkout(rfBranch)
           /\ gitRepository = "Some"
           /\ rfLog = IF rfExisted
                      THEN <<"load", "current_branch_name", "pull_changes">>
                      ELSE <<"clone_and_checkout">>
    /\ "clone_and_checkout" \in Range(rfLog) => ~rfExisted
    /\ (Range(rfLog) \cap {"load", "current_branch_name", "pull_changes"} # {}) => rfExisted

C28_Witness ==
    /\ rfPc = "done"
    /\ IsOk(rfResult)
    /\ rfExisted
    /\ rfCurrent = "main"
    /\ rfBranch = "dev"
    /\ gitDisk.head = "dev"

----------------------------------------------------------------------------
(* Claims about Config::override_data, checked under ConfigSpec *)

(* The field of a Config that an override key names. *)
Field(c, key) ==
    CASE key = "project_template_repository.url" -> c.project_template_repository.url
      [] key = "project_template_repository.branch" -> c.project_template_repository.branch
      [] key = "project_template_repository.folder" -> c.project_template_repository.folder
      [] key = "wasm_template_repository.url" -> c.wasm_template_repository.url
      [] key = "wasm_template_repository.branch" -> c.wasm_template_repository.branch
      [] key = "wasm_template_repository.folder" -> c.wasm_template_repository.folder
      [] key = "default_account" -> c.default_account

(* The value a successful override leaves in the field. *)
Overridden(key, value) == IF key = "default_account" THEN SomeAccount(value) ELSE value

Rejected(o) ==
    \/ o.key \notin VALID_OVERRIDE_KEYS
    \/ o.key = "default_account" /\ ~o.accepted

(* C29: override_data with a key outside VALID_OVERRIDE_KEYS, or with a
   default_account value that does not parse, returns an error and leaves the
   config as it was; with a valid key and value it returns Ok, the field the
   key names holds the value and every other field is as it was. *)
C29_OverrideChangesOnlyNamedField ==
    cfgLast # NoOverride =>
        IF Rejected(cfgLast)
        THEN /\ IsErr(cfgLast.res)
             /\ config = cfgLast.before
        ELSE /\ IsOk(cfgLast.res)
             /\ DOMAIN config = DOMAIN cfgLast.before
             /\ \A k \in VALID_OVERRIDE_KEYS :
                  Field(config, k) = IF k = cfgLast.key
                                     THEN Overridden(cfgLast.key, cfgLast.value)
                                     ELSE Field(cfgLast.before, k)

C29_Witness ==
    /\ cfgLast # NoOverride
    /\ cfgLast.key = "default_account"
    /\ ~cfgLast.accepted
    /\ IsErr(cfgLast.res)
    /\ cfgLast.before.default_account.some
    /\ cfgLast.before.wasm_template_repository.branch = 1
    /\ config = cfgLast.before

----------------------------------------------------------------------------
(* Claims about add_members_to_workspace, checked under WorkspaceSpec *)

Occurrences(members, p) == Cardinality({i \in DOMAIN members : members[i] = p})

IsPrefix(s, t) == Len(s) <= Len(t) /\ \A i \in DOMAIN s : s[i] = t[i]

(* The call found a readable Cargo.toml and none of its steps failed. *)
Undisturbed(o) == o.before.readable /\ o.failAt = "none"

(* C30: when a path was added and the same path is added again, no step of
   the second call failing, the second call returns Ok and leaves the members
   as they were, the path among them once; a call that returns Ok keeps the
   members it found, in their order, at the front of the list. *)
C30_AddMembersIdempotent ==
    /\ (addPrev # NoAdd /\ IsOk(addPrev.res) /\ addLast.path = addPrev.path
            /\ Undisturbed(addLast)) =>
           /\ IsOk(addLast.res)
           /\ cargoToml = addLast.before
           /\ Occurrences(cargoToml.workspace.members, addLast.path) = 1
    /\ (addLast # NoAdd /\ IsOk(addLast.res)) =>
           /\ cargoToml.readable
           /\ cargoToml.workspace.some
           /\ contains(cargoToml.workspace.members, addLast.path)
           /\ addLast.before.workspace.some =>
                  IsPrefix(addLast.before.workspace.members, cargoToml.workspace.members)

C30_Witness ==
    /\ addPrev # NoAdd
    /\ IsOk(addPrev.res)
    /\ addPrev.before.workspace.some
    /\ Len(addPrev.before.workspace.members) = 1
    /\ addLast.path = addPrev.path
    /\ IsOk(addLast.res)
    /\ Len(cargoToml.workspace.members) = 2
    /\ cargoToml = addLast.before

====
